---- MODULE Spec2Model ----
(***************************************************************************)
(* Bias detection and discipline scoring engine of tradecoach              *)
(* (src/lib/services/biasDetector.ts) and its report wrapper               *)
(* (src/lib/services/behaviorReport.ts).                                   *)
(*                                                                         *)
(* Conventions of the model                                                *)
(*  - A string is the sequence of its UTF-16 code units, so that trim,     *)
(*    toUpperCase, localeCompare, the evidence signature and the hash are  *)
(*    computed and not assumed.                                            *)
(*  - A timestamp is the number of minutes since the epoch (UTC); its      *)
(*    calendar day, timestamp.split('T')[0], is ts \div 1440.              *)
(*  - Money is in whole dollars.  Quotients are kept as exact fractions    *)
(*    and compared by cross-multiplication; Number(x.toFixed(k)) is the    *)
(*    integer n = round(x * 10^k), written Dec(n, k).  IEEE-754 rounding   *)
(*    error of the double arithmetic is not modelled.                      *)
(***************************************************************************)
EXTENDS Integers, Sequences, FiniteSets, TLC

(***************************************************************************)
(* String literals of the source.                                          *)
(***************************************************************************)
Str ==
  [overtrading |-> <<111,118,101,114,116,114,97,100,105,110,103>>,
   loss_aversion |-> <<108,111,115,115,95,97,118,101,114,115,105,111,110>>,
   revenge_trading |-> <<114,101,118,101,110,103,101,95,116,114,97,100,105,110,103>>,
   disposition_effect |-> <<100,105,115,112,111,115,105,116,105,111,110,95,101,102,102,101,99,116>>,
   risk_escalation |-> <<114,105,115,107,95,101,115,99,97,108,97,116,105,111,110>>,
   overconfidence |-> <<111,118,101,114,99,111,110,102,105,100,101,110,99,101>>,
   concentration_bias |-> <<99,111,110,99,101,110,116,114,97,116,105,111,110,95,98,105,97,115>>,
   fee_drag |-> <<102,101,101,95,100,114,97,103>>,
   churn |-> <<99,104,117,114,110>>,
   none |-> <<110,111,110,101>>,
   GLOBAL |-> <<71,76,79,66,65,76>>,
   avg_daily_trades |-> <<97,118,103,95,100,97,105,108,121,95,116,114,97,100,101,115>>,
   max_daily_trades |-> <<109,97,120,95,100,97,105,108,121,95,116,114,97,100,101,115>>,
   annual_turnover_pct |-> <<97,110,110,117,97,108,95,116,117,114,110,111,118,101,114,95,112,99,116>>,
   pct_short_holds |-> <<112,99,116,95,115,104,111,114,116,95,104,111,108,100,115>>,
   avg_win |-> <<97,118,103,95,119,105,110>>,
   avg_loss |-> <<97,118,103,95,108,111,115,115>>,
   loss_win_ratio |-> <<108,111,115,115,95,119,105,110,95,114,97,116,105,111>>,
   win_rate_pct |-> <<119,105,110,95,114,97,116,101,95,112,99,116>>,
   max_win |-> <<109,97,120,95,119,105,110>>,
   max_loss |-> <<109,97,120,95,108,111,115,115>>,
   max_loss_streak |-> <<109,97,120,95,108,111,115,115,95,115,116,114,101,97,107>>,
   revenge_instances |-> <<114,101,118,101,110,103,101,95,105,110,115,116,97,110,99,101,115>>,
   revenge_rate_pct |-> <<114,101,118,101,110,103,101,95,114,97,116,101,95,112,99,116>>,
   avg_time_to_reentry_min |-> <<97,118,103,95,116,105,109,101,95,116,111,95,114,101,101,110,116,114,121,95,109,105,110>>,
   avg_size_increase_pct |-> <<97,118,103,95,115,105,122,101,95,105,110,99,114,101,97,115,101,95,112,99,116>>,
   avg_win_size |-> <<97,118,103,95,119,105,110,95,115,105,122,101>>,
   avg_loss_size |-> <<97,118,103,95,108,111,115,115,95,115,105,122,101>>,
   win_loss_ratio |-> <<119,105,110,95,108,111,115,115,95,114,97,116,105,111>>,
   pct_small_wins |-> <<112,99,116,95,115,109,97,108,108,95,119,105,110,115>>,
   pct_quick_after_win |-> <<112,99,116,95,113,117,105,99,107,95,97,102,116,101,114,95,119,105,110>>,
   escalation_events |-> <<101,115,99,97,108,97,116,105,111,110,95,101,118,101,110,116,115>>,
   max_size_increase_pct |-> <<109,97,120,95,115,105,122,101,95,105,110,99,114,101,97,115,101,95,112,99,116>>,
   longest_losing_streak |-> <<108,111,110,103,101,115,116,95,108,111,115,105,110,103,95,115,116,114,101,97,107>>,
   hot_hand_episodes |-> <<104,111,116,95,104,97,110,100,95,101,112,105,115,111,100,101,115>>,
   avg_size_increase_after_wins_pct |-> <<97,118,103,95,115,105,122,101,95,105,110,99,114,101,97,115,101,95,97,102,116,101,114,95,119,105,110,115,95,112,99,116>>,
   avg_post_streak_pnl |-> <<97,118,103,95,112,111,115,116,95,115,116,114,101,97,107,95,112,110,108>>,
   herfindahl_index |-> <<104,101,114,102,105,110,100,97,104,108,95,105,110,100,101,120>>,
   max_allocation_pct |-> <<109,97,120,95,97,108,108,111,99,97,116,105,111,110,95,112,99,116>>,
   top_symbol |-> <<116,111,112,95,115,121,109,98,111,108>>,
   top_3_concentration_pct |-> <<116,111,112,95,51,95,99,111,110,99,101,110,116,114,97,116,105,111,110,95,112,99,116>>,
   num_positions |-> <<110,117,109,95,112,111,115,105,116,105,111,110,115>>,
   total_fees |-> <<116,111,116,97,108,95,102,101,101,115>>,
   gross_pnl |-> <<103,114,111,115,115,95,112,110,108>>,
   net_pnl |-> <<110,101,116,95,112,110,108>>,
   fee_drag_ratio_pct |-> <<102,101,101,95,100,114,97,103,95,114,97,116,105,111,95,112,99,116>>,
   annualized_fee_drag_pct |-> <<97,110,110,117,97,108,105,122,101,100,95,102,101,101,95,100,114,97,103,95,112,99,116>>,
   pct_trades_where_fees_exceeded_profit |-> <<112,99,116,95,116,114,97,100,101,115,95,119,104,101,114,101,95,102,101,101,115,95,101,120,99,101,101,100,101,100,95,112,114,111,102,105,116>>,
   churn_instances |-> <<99,104,117,114,110,95,105,110,115,116,97,110,99,101,115>>,
   churn_rate_pct |-> <<99,104,117,114,110,95,114,97,116,101,95,112,99,116>>,
   avg_churn_pnl |-> <<97,118,103,95,99,104,117,114,110,95,112,110,108>>,
   total_value_lost_to_churn |-> <<116,111,116,97,108,95,118,97,108,117,101,95,108,111,115,116,95,116,111,95,99,104,117,114,110>>,
   avg_churn_holding_days |-> <<97,118,103,95,99,104,117,114,110,95,104,111,108,100,105,110,103,95,100,97,121,115>>,
   AAPL |-> <<65,65,80,76>>,
   MSFT |-> <<77,83,70,84>>,
   V |-> <<86>>]

(***************************************************************************)
(* Arithmetic helpers.                                                     *)
(***************************************************************************)
Abs(x) == IF x < 0 THEN -x ELSE x

Min(a, b) == IF a < b THEN a ELSE b

Max(a, b) == IF a > b THEN a ELSE b

RECURSIVE Pow10(_)
Pow10(k) == IF k = 0 THEN 1 ELSE 10 * Pow10(k - 1)

\* x.toFixed(k) of the fraction num/den (den > 0), as the integer
\* round(num/den * 10^k), ties away from zero.
ToFixed(num, den, k) ==
  LET a == Abs(num) * Pow10(k)
      q == (2 * a + den) \div (2 * den)
  IN  IF num < 0 THEN -q ELSE q

\* Rounding down, as Math.floor does.
MathFloor(num, den) == num \div den

\* Math.round of the fraction num/den (den > 0): ties towards +Infinity.
MathRound(num, den) == (2 * num + den) \div (2 * den)

SumSeq(s) ==
  LET acc[k \in 0..Len(s)] == IF k = 0 THEN 0 ELSE acc[k - 1] + s[k]
  IN  acc[Len(s)]

MaxSeq(s, base) ==
  LET acc[k \in 0..Len(s)] == IF k = 0 THEN base ELSE Max(acc[k - 1], s[k])
  IN  acc[Len(s)]

\* The sequence with elements e(1), ..., e(n), each element computed once.
ArrayOf(n, e(_)) == [i \in 1..n |-> e(i)] \o <<>>

Map(s, f(_)) == ArrayOf(Len(s), LAMBDA i : f(s[i]))

\* The concatenation of ss[from..to], halves first.
RECURSIVE ConcatRange(_, _, _)
ConcatRange(ss, from, to) ==
  IF from > to THEN <<>>
  ELSE IF from = to THEN ss[from]
  ELSE LET mid == (from + to) \div 2
       IN  ConcatRange(ss, from, mid) \o ConcatRange(ss, mid + 1, to)

Concat(ss) == ConcatRange(ss, 1, Len(ss))

\* Array.prototype.sort with comparator cmp (negative: a first; positive: b
\* first).  The sort is stable (ES2019): an element goes behind the elements
\* the comparator puts first and the equal ones that precede it in s.
SortBy(s, cmp(_, _)) ==
  LET n == Len(s)
      first(j, i) == LET c == cmp(s[j], s[i]) IN c < 0 \/ (c = 0 /\ j < i)
      rank == ArrayOf(n, LAMBDA i : Cardinality({j \in 1..n : first(j, i)}) + 1)
  IN  ArrayOf(n, LAMBDA r : s[CHOOSE i \in 1..n : rank[i] = r])

(***************************************************************************)
(* String helpers of the JavaScript runtime.                               *)
(***************************************************************************)
\* a.localeCompare(b): the strings compared here are lower-case identifiers
\* and upper-case symbols, on which the collation agrees with code order.
localeCompare(a, b) ==
  LET n == Min(Len(a), Len(b))
      diffs == {i \in 1..n : a[i] # b[i]}
      first == CHOOSE i \in diffs : \A j \in diffs : i <= j
  IN  IF diffs = {}
      THEN (IF Len(a) < Len(b) THEN -1 ELSE IF Len(a) > Len(b) THEN 1 ELSE 0)
      ELSE IF a[first] < b[first] THEN -1 ELSE 1

IsSpace(c) == c \in {9, 10, 11, 12, 13, 32}

RECURSIVE TrimStart(_)
TrimStart(s) ==
  IF s # <<>> /\ IsSpace(Head(s)) THEN TrimStart(Tail(s)) ELSE s

RECURSIVE TrimEnd(_)
TrimEnd(s) ==
  IF s # <<>> /\ IsSpace(s[Len(s)]) THEN TrimEnd(SubSeq(s, 1, Len(s) - 1)) ELSE s

Trim(s) == TrimEnd(TrimStart(s))

ToUpperCase(s) == Map(s, LAMBDA c : IF c \in 97..122 THEN c - 32 ELSE c)

RECURSIVE NatToString(_)
NatToString(n) ==
  IF n < 10 THEN <<48 + n>> ELSE NatToString(n \div 10) \o <<48 + (n % 10)>>

IntToString(n) == IF n < 0 THEN <<45>> \o NatToString(-n) ELSE NatToString(n)

PadStart(s, width, c) ==
  IF Len(s) >= width THEN s ELSE ArrayOf(width - Len(s), LAMBDA i : c) \o s

Slice(s, from, to) == SubSeq(s, from + 1, Min(to, Len(s)))

\* ss[from..to] joined with sep, halves first.
RECURSIVE JoinRange(_, _, _, _)
JoinRange(ss, sep, from, to) ==
  IF from > to THEN <<>>
  ELSE IF from = to THEN ss[from]
  ELSE LET mid == (from + to) \div 2
       IN  JoinRange(ss, sep, from, mid) \o sep \o JoinRange(ss, sep, mid + 1, to)

Join(ss, sep) == JoinRange(ss, sep, 1, Len(ss))

(***************************************************************************)
(* Evidence values: number | string.                                       *)
(***************************************************************************)
\* The number n / 10^k.
Dec(n, k) == [t |-> "number", n |-> n, k |-> k, s |-> <<>>]

Num(n) == Dec(n, 0)

StrVal(s) == [t |-> "string", n |-> 0, k |-> 0, s |-> s]

\* The number NaN (0 / 0): a number without a value, which toFixed and
\* toString render as "NaN".
NaN == [t |-> "number", n |-> 0, k |-> 0, s |-> <<78, 97, 78>>]

Entry(key, value) == [key |-> key, value |-> value]

(***************************************************************************)
(* Utility functions of biasDetector.ts.                                   *)
(***************************************************************************)
\* getSeverity with exclusive boundaries (> for >=).
getSeverityExclusive(score) ==
  IF score > 75 THEN "critical"
  ELSE IF score > 50 THEN "high"
  ELSE IF score > 25 THEN "medium"
  ELSE "low"

getSeverity(score) ==
  IF score >= 75 THEN "critical"
  ELSE IF score >= 50 THEN "high"
  ELSE IF score >= 25 THEN "medium"
  ELSE "low"

\* The thresholds of the bias definitions: the same for every type but
\* churn, whose low and medium thresholds are 35 and 50.
biasDefinitions ==
  [ biasType \in { "overtrading", "loss_aversion", "revenge_trading",
                   "disposition_effect", "risk_escalation", "overconfidence",
                   "concentration_bias", "fee_drag", "churn" } |->
      [ thresholds |->
          IF biasType = "churn"
          THEN [ low |-> 35, medium |-> 50, high |-> 70, critical |-> 85 ]
          ELSE [ low |-> 40, medium |-> 55, high |-> 70, critical |-> 85 ] ] ]

getSeverityFromScore(score, biasType) ==
  LET thresholds == biasDefinitions[biasType].thresholds
  IN  IF score >= thresholds.critical THEN "critical"
      ELSE IF score >= thresholds.high THEN "high"
      ELSE IF score >= thresholds.medium THEN "medium"
      ELSE "low"

\* One round of the loop: hash = (((hash << 5) + hash) + code) >>> 0, on a
\* 32-bit value kept as two 16-bit halves.
HashStep(h, c) ==
  LET lo == h.lo * 33 + c
  IN  [hi |-> (h.hi * 33 + (lo \div 65536)) % 65536, lo |-> lo % 65536]

Digit36(d) == IF d < 10 THEN 48 + d ELSE 87 + d

\* hash.toString(36)
RECURSIVE ToString36(_)
ToString36(h) ==
  IF h.hi = 0 /\ h.lo < 36 THEN <<Digit36(h.lo)>>
  ELSE LET w == (h.hi % 36) * 65536 + h.lo
       IN  ToString36([hi |-> h.hi \div 36, lo |-> w \div 36]) \o <<Digit36(w % 36)>>

\* The loop of stableHash over input[from..to], started with hash h.  The
\* left-to-right fold is evaluated over four quarters of the range, each
\* finished before the next is started, which keeps the evaluation depth
\* logarithmic in the length of the string.
RECURSIVE HashLoop(_, _, _, _)
HashLoop(input, from, to, h) ==
  IF from > to THEN h
  ELSE IF from = to THEN HashStep(h, input[from])
  ELSE LET step == (to - from + 4) \div 4
           m1 == Min(to, from + step - 1)
           m2 == Min(to, m1 + step)
           m3 == Min(to, m2 + step)
           h1 == HashLoop(input, from, m1, h)
           h2 == HashLoop(input, m1 + 1, m2, h1)
           h3 == HashLoop(input, m2 + 1, m3, h2)
       IN  IF h1.lo >= 0 /\ h2.lo >= 0 /\ h3.lo >= 0
           THEN HashLoop(input, m3 + 1, to, h3)
           ELSE h

stableHash(input) ==
  LET hash == HashLoop(input, 1, Len(input), [hi |-> 0, lo |-> 5381])
  IN  Slice(PadStart(ToString36(hash), 7, 48), 0, 7)

normalizeMetricValue(value) ==
  IF value = NaN THEN NaN.s
  ELSE IF value.t = "number"
  THEN IF value.n % Pow10(value.k) = 0
       THEN IntToString(value.n \div Pow10(value.k))
       ELSE LET m == Abs(value.n) * Pow10(4 - value.k)
            IN  (IF value.n < 0 THEN <<45>> ELSE <<>>)
                \o NatToString(m \div 10000) \o <<46>>
                \o PadStart(NatToString(m % 10000), 4, 48)
  ELSE Trim(value.s)

buildEvidenceSignature(evidence) ==
  LET cmp(a, b) == localeCompare(a.key, b.key)
      render(e) == e.key \o <<58>> \o normalizeMetricValue(e.value)
  IN  Join(Map(SortBy(evidence, cmp), render), <<124>>)

\* evidence[key], or NoValue when the object has no such property.
NoValue == [t |-> "undefined", n |-> 0, k |-> 0, s |-> <<>>]

GetProp(evidence, key) ==
  LET hits == SelectSeq(evidence, LAMBDA e : e.key = key)
  IN  IF hits = <<>> THEN NoValue ELSE hits[1].value

\* new Map(trades.map(trade => [trade.id, trade])).get(id): the last trade
\* carrying the id, or <<>> when there is none.
TradeById(trades, id) ==
  LET hits == SelectSeq(trades, LAMBDA t : t.id = id)
  IN  IF hits = <<>> THEN <<>> ELSE <<hits[Len(hits)]>>

\* The distinct values of a sequence in order of first appearance (the key
\* order of a Map filled in that order).
Distinct(s) ==
  LET firsts == SelectSeq(ArrayOf(Len(s), LAMBDA i : i),
                          LAMBDA i : \A j \in 1..(i - 1) : s[j] # s[i])
  IN  Map(firsts, LAMBDA i : s[i])

Count(s, p(_)) == Len(SelectSeq(s, p))

\* The comparator without its alphabetical tie-break.
byCountOnly(a, b) == b[2] - a[2]

bySymbolCount(a, b) ==
  IF b[2] # a[2] THEN b[2] - a[2] ELSE localeCompare(a[1], b[1])

getBiasSymbolContext(evidence, affectedTradeIds, trades) ==
  LET evidenceSymbol == GetProp(evidence, Str.top_symbol)
      found == Concat(Map(affectedTradeIds, LAMBDA id : TradeById(trades, id)))
      symbols == SelectSeq(Map(found, LAMBDA t : ToUpperCase(Trim(t.symbol))),
                           LAMBDA s : s # <<>>)
      symbolCounts == Map(Distinct(symbols),
                          LAMBDA s : <<s, Count(symbols, LAMBDA x : x = s)>>)
  IN  IF evidenceSymbol.t = "string" /\ Trim(evidenceSymbol.s) # <<>>
      THEN ToUpperCase(Trim(evidenceSymbol.s))
      ELSE IF symbolCounts = <<>> THEN Str.GLOBAL
      ELSE SortBy(symbolCounts, bySymbolCount)[1][1]

buildDeterministicBiasId(biasType, symbol, evidence) ==
  LET signature == buildEvidenceSignature(evidence)
  IN  Str[biasType] \o <<45>> \o symbol \o <<45>>
      \o stableHash(Str[biasType] \o <<124>> \o symbol \o <<124>> \o signature)

(***************************************************************************)
(* Trades, positions and the helpers shared by the detectors.              *)
(***************************************************************************)
\* t.pnl || 0
Pnl(t) == IF t.hasPnl THEN t.pnl ELSE 0

MinutesPerDay == 1440

\* timestamp.split('T')[0]
DayOf(t) == t.timestamp \div MinutesPerDay

minutesBetween(t1, t2) == Abs(t2.timestamp - t1.timestamp)

byTimestamp(a, b) == a.timestamp - b.timestamp

\* [...trades].sort((a, b) => new Date(a.timestamp) - new Date(b.timestamp))
SortByTimestamp(trades) == SortBy(trades, byTimestamp)

\* The values of groupTradesByDay(trades), in key order.
groupTradesByDay(trades) ==
  Map(Distinct(Map(trades, DayOf)),
      LAMBDA d : SelectSeq(trades, LAMBDA t : DayOf(t) = d))

\* The values of groupTradesBySymbol(trades), in key order.
groupTradesBySymbol(trades) ==
  Map(Distinct(Map(trades, LAMBDA t : t.symbol)),
      LAMBDA s : SelectSeq(trades, LAMBDA t : t.symbol = s))

\* The positions of the trades in the array they come in, for their ids.
IndexesOf(trades) == ArrayOf(Len(trades), LAMBDA i : i - 1)

Ids(trades) == Map(trades, LAMBDA t : t.id)

\* Adjacent pairs <<s[i-1], s[i]>>, i = 1 .. length-1, of an array.
AdjacentPairs(s) == ArrayOf(Len(s) - 1, LAMBDA i : <<s[i], s[i + 1]>>)

\* Exact fractions, den > 0, in lowest terms.
RECURSIVE GCD(_, _)
GCD(a, b) == IF b = 0 THEN a ELSE GCD(b, a % b)

Frac(num, den) ==
  LET g == GCD(Abs(num), den)
  IN  [num |-> num \div g, den |-> den \div g]

FracAdd(a, b) == Frac(a.num * b.den + b.num * a.den, a.den * b.den)

FracSum(s) ==
  LET acc[k \in 0..Len(s)] ==
        IF k = 0 THEN Frac(0, 1) ELSE FracAdd(acc[k - 1], s[k])
  IN  acc[Len(s)]

FracMax(s) ==
  LET acc[k \in 0..Len(s)] ==
        IF k <= 1 THEN s[1]
        ELSE IF s[k].num * acc[k - 1].den > acc[k - 1].num * s[k].den
             THEN s[k] ELSE acc[k - 1]
  IN  acc[Len(s)]

\* An insufficient-sample return that carries the floor score.
NoDetectionFloor ==
  [score |-> 10, evidence |-> <<>>, intervention |-> "", affectedTrades |-> <<>>]

NoDetection ==
  [score |-> 0, evidence |-> <<>>, intervention |-> "", affectedTrades |-> <<>>]

Detection(score, evidence, intervention, affectedTrades) ==
  [score |-> score, evidence |-> evidence, intervention |-> intervention,
   affectedTrades |-> affectedTrades]

\* A return without winners or without losers that reports no signal.
MixedResultsSilent(score, intervention) == NoDetection

\* return { score, evidence: {}, intervention, affectedTrades: [] }: what a
\* ratio-based detector returns when there are no winners or no losers.
MixedResultsFloor(score, intervention) == Detection(score, <<>>, intervention, <<>>)

\* The adjacent BUY -> SELL pairs of every symbol, each symbol's trades in
\* timestamp order (the round trips of detectOvertrading and detectChurn).
\* The adjacent pairs of one symbol that end in a SELL, whatever they begin
\* with.
PairsEndingInSell(trades) ==
  Concat(Map(groupTradesBySymbol(trades),
             LAMBDA g : SelectSeq(AdjacentPairs(SortByTimestamp(g)),
                                  LAMBDA p : p[2].action = "SELL")))

RoundTrips(trades) ==
  Concat(Map(groupTradesBySymbol(trades),
             LAMBDA g : SelectSeq(AdjacentPairs(SortByTimestamp(g)),
                                  LAMBDA p : p[1].action = "BUY" /\ p[2].action = "SELL")))

(***************************************************************************)
(* 1. Overtrading                                                          *)
(***************************************************************************)
detectOvertrading(trades) ==
  IF Len(trades) < 3 THEN NoDetection
  ELSE
  LET n == Len(trades)
      dailyCounts == Map(groupTradesByDay(trades), Len)
      tradingDays == Len(dailyCounts)
      maxDailyTrades == MaxSeq(dailyCounts, 0)
      \* avgDailyTrades = n / tradingDays
      totalTradedValue == SumSeq(Map(trades, LAMBDA t : t.total_value))
      \* annualTurnover = totalTradedValue / (totalTradedValue / n * 10)
      \*                  * (365 / max(tradingDays, 1))
      turnoverNum == n * 365
      turnoverDen == 10 * Max(tradingDays, 1)
      trips == RoundTrips(trades)
      totalRoundTrips == Len(trips)
      shortHolds == Count(trips, LAMBDA p : minutesBetween(p[1], p[2]) < 4 * 60)
      frequencyScore ==
        IF n >= 15 * tradingDays THEN 90
        ELSE IF n >= 10 * tradingDays THEN 75
        ELSE IF n >= 7 * tradingDays THEN 55
        ELSE IF n >= 5 * tradingDays THEN 35
        ELSE 15
      turnoverScore ==
        IF turnoverNum > 250 * turnoverDen THEN 95
        ELSE IF turnoverNum > 100 * turnoverDen THEN 70
        ELSE IF turnoverNum > 75 * turnoverDen THEN 50
        ELSE 25
      holdingScore ==
        IF totalRoundTrips = 0 THEN 20
        ELSE IF shortHolds * 100 > 70 * totalRoundTrips THEN 85
        ELSE IF shortHolds * 100 > 50 * totalRoundTrips THEN 65
        ELSE IF shortHolds * 100 > 30 * totalRoundTrips THEN 40
        ELSE 20
      score == MathRound(frequencyScore * 40 + turnoverScore * 35 + holdingScore * 25, 100)
      intervention ==
        IF score >= 75 THEN "overtrading: critical"
        ELSE IF score >= 50 THEN "overtrading: high"
        ELSE IF score >= 25 THEN "overtrading: moderate"
        ELSE "overtrading: healthy"
  IN  Detection(score,
        << Entry(Str.avg_daily_trades, Dec(ToFixed(n, tradingDays, 2), 2)),
           Entry(Str.max_daily_trades, Num(maxDailyTrades)),
           Entry(Str.annual_turnover_pct, Num(ToFixed(turnoverNum, turnoverDen, 0))),
           Entry(Str.pct_short_holds,
                 IF totalRoundTrips > 0
                 THEN Dec(ToFixed(shortHolds * 100, totalRoundTrips, 1), 1)
                 ELSE Num(0)) >>,
        intervention, <<>>)

(***************************************************************************)
(* 2. Loss aversion                                                        *)
(***************************************************************************)
\* The longest run of consecutive trades with pnl < 0.
MaxLossStreak(sorted) ==
  LET run[k \in 0..Len(sorted)] ==
        IF k = 0 THEN [cur |-> 0, max |-> 0]
        ELSE IF Pnl(sorted[k]) < 0
             THEN [cur |-> run[k - 1].cur + 1,
                   max |-> Max(run[k - 1].max, run[k - 1].cur + 1)]
             ELSE [cur |-> 0, max |-> run[k - 1].max]
  IN  run[Len(sorted)].max

\* avgLoss / avgWin in doubles.  Each average is a sum of whole dollars
\* divided by a count and rounded to a double, and their quotient is rounded
\* again.  When both averages are whole dollars, and for every other pair of
\* at most 6 winners and 6 losers with sums up to $100, the rounded quotient
\* stands to 2.0, 1.5, 1.2 and 1.0 as the exact quotient does, except for
\* these <<winners, losers, sum of wins, sum of losses>>, whose exact
\* quotient is 1.5 or 1.2 and whose quotient in doubles is one unit in the
\* last place lower (2.4 / 1.6 is 1.4999999999999998).
QuotientsRoundedDown ==
  { <<5, 5, 2, 3>>, <<5, 5, 4, 6>>, <<5, 5, 8, 12>>, <<5, 5, 16, 24>>,
    <<5, 5, 22, 33>>, <<5, 5, 32, 48>>, <<5, 5, 44, 66>>, <<5, 5, 54, 81>>,
    <<5, 5, 64, 96>>, <<6, 5, 97, 97>> }

\* lossWinRatio >= a / b, for the exact quotient rNum / rDen.
lossWinRatioAtLeast(rNum, rDen, a, b, roundedDown) ==
  IF roundedDown THEN rNum * b > a * rDen ELSE rNum * b >= a * rDen

detectLossAversion(trades) ==
  IF Len(trades) < 5 THEN NoDetection
  ELSE
  LET winners == SelectSeq(trades, LAMBDA t : Pnl(t) > 0)
      losers == SelectSeq(trades, LAMBDA t : Pnl(t) < 0)
      affectedTrades == Ids(losers)
  IN  IF winners = <<>> \/ losers = <<>>
      THEN MixedResultsFloor(15, "Not enough mixed results to analyze.")
      ELSE
      LET nW == Len(winners)
          nL == Len(losers)
          sumW == SumSeq(Map(winners, Pnl))
          sumL == Abs(SumSeq(Map(losers, Pnl)))
          \* avgWin = sumW / nW > 0, avgLoss = sumL / nL
          \* lossWinRatio = avgLoss / avgWin = rNum / rDen
          rNum == sumL * nW
          rDen == nL * sumW
          n == Len(trades)
          maxWin == MaxSeq(Map(winners, Pnl), Pnl(winners[1]))
          maxLoss == MaxSeq(Map(losers, LAMBDA t : -Pnl(t)), -Pnl(losers[1]))
          maxLossStreak == MaxLossStreak(SortByTimestamp(trades))
          roundedDown == <<nW, nL, sumW, sumL>> \in QuotientsRoundedDown
          primary ==
            IF lossWinRatioAtLeast(rNum, rDen, 2, 1, roundedDown) THEN 40
            ELSE IF lossWinRatioAtLeast(rNum, rDen, 3, 2, roundedDown) THEN 30
            ELSE IF lossWinRatioAtLeast(rNum, rDen, 6, 5, roundedDown) THEN 20
            ELSE 10
          secondary ==
            IF 100 * nW < 50 * n /\ rNum > rDen THEN 25
            ELSE IF 100 * nW < 40 * n THEN 20
            ELSE IF 100 * nW < 50 * n THEN 10
            ELSE 0
          tertiary ==
            IF maxLoss >= 3 * maxWin THEN 25
            ELSE IF maxLoss >= 2 * maxWin THEN 15
            ELSE IF 2 * maxLoss >= 3 * maxWin THEN 10
            ELSE 0
          streak == IF maxLossStreak >= 5 THEN 10 ELSE 0
          score == Min(100, primary + secondary + tertiary + streak)
          intervention ==
            IF score >= 75 THEN "loss_aversion: critical"
            ELSE IF score >= 50 THEN "loss_aversion: moderate"
            ELSE IF score >= 25 THEN "loss_aversion: mild"
            ELSE "loss_aversion: good"
      IN  Detection(score,
            << Entry(Str.avg_win, Dec(ToFixed(sumW, nW, 2), 2)),
               Entry(Str.avg_loss, Dec(ToFixed(sumL, nL, 2), 2)),
               Entry(Str.loss_win_ratio, Dec(ToFixed(rNum, rDen, 2), 2)),
               Entry(Str.win_rate_pct, Dec(ToFixed(nW * 100, n, 1), 1)),
               Entry(Str.max_win, Num(maxWin)),
               Entry(Str.max_loss, Num(maxLoss)),
               Entry(Str.max_loss_streak, Num(maxLossStreak)) >>,
            intervention, affectedTrades)

(***************************************************************************)
(* 3. Revenge trading                                                      *)
(***************************************************************************)
\* prevTrade lost more than 2% of its value, or more than $50.
IsRevengeTrigger(prevTrade) ==
  LET pnl == Pnl(prevTrade)
      isSignificantLoss == pnl < 0 /\ Abs(pnl) * 100 > prevTrade.total_value * 2
  IN  isSignificantLoss \/ pnl < -50

rapidReentry(pair) == minutesBetween(pair[1], pair[2]) < 30

\* The test with >= in place of >.
sizeEscalationInclusive(pair) == pair[2].total_value * 10 >= 13 * pair[1].total_value

\* sizeRatio = curr.total_value / prev.total_value > 1.3
sizeEscalation(pair) == pair[2].total_value * 10 > 13 * pair[1].total_value

\* (sizeRatio - 1) * 100 of an instance
SizeIncreasePct(pair) ==
  Frac((pair[2].total_value - pair[1].total_value) * 100, pair[1].total_value)

\* r.sizeIncrease > 30 of an instance, as the doubles decide it.  The
\* quotient c / p of two whole amounts is the double nearest to the ratio, so
\* it is above the double 1.3 exactly when 10 c > 13 p; but when 10 c = 13 p
\* the quotient is the double 1.3, (1.3 - 1) is 0.30000000000000004 and the
\* product with 100 is 30.000000000000004, which is above 30.  For whole
\* amounts (p below 400, c below 600, every pair tried) the test is true
\* exactly when 10 c >= 13 p.
sizeIncreaseOver30(pair) == pair[2].total_value * 10 >= 13 * pair[1].total_value

detectRevengeTrading(trades) ==
  IF Len(trades) < 3 THEN NoDetection
  ELSE
  LET sorted == SortByTimestamp(trades)
      revengeInstances ==
        SelectSeq(AdjacentPairs(sorted),
                  LAMBDA p : IsRevengeTrigger(p[1]) /\ (rapidReentry(p) \/ sizeEscalation(p)))
      affectedTrades == Map(revengeInstances, LAMBDA p : p[2].id)
      count == Len(revengeInstances)
      fullPatternMatches ==
        Count(revengeInstances,
              LAMBDA p : minutesBetween(p[1], p[2]) < 30 /\ sizeIncreaseOver30(p))
      score ==
        IF fullPatternMatches >= 2 THEN 90
        ELSE IF count >= 3 THEN 75
        ELSE IF count >= 2 THEN 55
        ELSE IF count >= 1 THEN 35
        ELSE 10
      sumTime == SumSeq(Map(revengeInstances, LAMBDA p : minutesBetween(p[1], p[2])))
      sumSize == FracSum(Map(revengeInstances, SizeIncreasePct))
      intervention ==
        IF score >= 75 THEN "revenge_trading: critical"
        ELSE IF score >= 50 THEN "revenge_trading: pattern"
        ELSE IF score >= 25 THEN "revenge_trading: mild"
        ELSE "revenge_trading: good"
  IN  Detection(score,
        << Entry(Str.revenge_instances, Num(count)),
           Entry(Str.revenge_rate_pct, Dec(ToFixed(count * 100, Len(sorted) - 1, 1), 1)),
           Entry(Str.avg_time_to_reentry_min,
                 IF count > 0 THEN Dec(ToFixed(sumTime, count, 1), 1) ELSE Num(0)),
           Entry(Str.avg_size_increase_pct,
                 IF count > 0 THEN Dec(ToFixed(sumSize.num, sumSize.den * count, 1), 1)
                 ELSE Num(0)) >>,
        intervention, affectedTrades)

(***************************************************************************)
(* 4. Disposition effect                                                   *)
(***************************************************************************)
detectDispositionEffect(trades) ==
  IF Len(trades) < 5 THEN NoDetection
  ELSE
  LET sorted == SortByTimestamp(trades)
      winners == SelectSeq(trades, LAMBDA t : Pnl(t) > 0)
      losers == SelectSeq(trades, LAMBDA t : Pnl(t) < 0)
  IN  IF winners = <<>> \/ losers = <<>>
      THEN MixedResultsFloor(10, "Not enough mixed results for disposition analysis.")
      ELSE
      LET nW == Len(winners)
          nL == Len(losers)
          sumW == SumSeq(Map(winners, Pnl))
          sumL == Abs(SumSeq(Map(losers, Pnl)))
          \* winLossRatio = avgWinSize / avgLossSize = rNum / rDen
          rNum == sumW * nL
          rDen == nW * sumL
          winFollowups == SelectSeq(AdjacentPairs(sorted), LAMBDA p : Pnl(p[1]) > 0)
          quickExits == SelectSeq(winFollowups, LAMBDA p : minutesBetween(p[1], p[2]) < 5)
          totalWinFollowups == Len(winFollowups)
          quickExitsAfterWin == Len(quickExits)
          affectedTrades == Map(quickExits, LAMBDA p : p[1].id)
          \* t.pnl < avgWinSize * 0.5
          smallWins == Count(winners, LAMBDA t : 2 * Pnl(t) * nW < sumW)
          ratioScore ==
            IF 2 * rNum < rDen THEN 40
            ELSE IF 4 * rNum < 3 * rDen THEN 30
            ELSE IF rNum < rDen THEN 20
            ELSE 5
          smallScore ==
            IF smallWins * 100 > 60 * nW THEN 25
            ELSE IF smallWins * 100 > 40 * nW THEN 15
            ELSE 5
          quickScore ==
            IF totalWinFollowups = 0 THEN 0
            ELSE IF quickExitsAfterWin * 100 > 50 * totalWinFollowups THEN 20
            ELSE IF quickExitsAfterWin * 100 > 30 * totalWinFollowups THEN 10
            ELSE 0
          score == Min(100, ratioScore + smallScore + quickScore)
          intervention ==
            IF score >= 75 THEN "disposition_effect: strong"
            ELSE IF score >= 50 THEN "disposition_effect: detected"
            ELSE IF score >= 25 THEN "disposition_effect: mild"
            ELSE "disposition_effect: good"
      IN  Detection(score,
            << Entry(Str.avg_win_size, Dec(ToFixed(sumW, nW, 2), 2)),
               Entry(Str.avg_loss_size, Dec(ToFixed(sumL, nL, 2), 2)),
               Entry(Str.win_loss_ratio, Dec(ToFixed(rNum, rDen, 2), 2)),
               Entry(Str.pct_small_wins, Dec(ToFixed(smallWins * 100, nW, 1), 1)),
               Entry(Str.pct_quick_after_win,
                     IF totalWinFollowups > 0
                     THEN Dec(ToFixed(quickExitsAfterWin * 100, totalWinFollowups, 1), 1)
                     ELSE Num(0)) >>,
            intervention, affectedTrades)

(***************************************************************************)
(* 5. Risk escalation                                                      *)
(***************************************************************************)
\* The loop over the sorted trades: the current losing streak after trade k
\* and the escalation events found so far.
EscalationScan(sorted) ==
  LET scan[k \in 0..Len(sorted)] ==
        IF k = 0 THEN [currentStreak |-> 0, events |-> <<>>]
        ELSE
        LET before == scan[k - 1]
            trade == sorted[k]
        IN  IF Pnl(trade) < 0
            THEN LET currentStreak == before.currentStreak + 1
                     sizeIncrease ==
                       Frac((trade.total_value - sorted[k - 1].total_value) * 100,
                            sorted[k - 1].total_value)
                 IN  IF currentStreak >= 2 /\ k > 1 /\ sizeIncrease.num > 25 * sizeIncrease.den
                     THEN [currentStreak |-> currentStreak,
                           events |-> Append(before.events,
                                             [streakLength |-> currentStreak,
                                              sizeIncreasePct |-> sizeIncrease,
                                              tradeId |-> trade.id])]
                     ELSE [currentStreak |-> currentStreak, events |-> before.events]
            ELSE [currentStreak |-> 0, events |-> before.events]
  IN  scan[Len(sorted)].events

\* The detector scoring by the number of events alone.
detectRiskEscalationByCount(trades) ==
  IF Len(trades) < 4 THEN NoDetection
  ELSE
  LET escalationEvents == EscalationScan(SortByTimestamp(trades))
  IN  Detection(IF Len(escalationEvents) >= 2 THEN 60
                ELSE IF Len(escalationEvents) >= 1 THEN 40 ELSE 10,
                <<>>, "risk_escalation: gradual",
                Map(escalationEvents, LAMBDA e : e.tradeId))

detectRiskEscalation(trades) ==
  IF Len(trades) < 4 THEN NoDetection
  ELSE
  LET sorted == SortByTimestamp(trades)
      escalationEvents == EscalationScan(sorted)
      affectedTrades == Map(escalationEvents, LAMBDA e : e.tradeId)
      count == Len(escalationEvents)
      maxEscalation ==
        IF count > 0 THEN FracMax(Map(escalationEvents, LAMBDA e : e.sizeIncreasePct))
        ELSE Frac(0, 1)
      score ==
        IF maxEscalation.num > 100 * maxEscalation.den THEN 95
        ELSE IF maxEscalation.num > 50 * maxEscalation.den THEN 75
        ELSE IF count >= 2 THEN 60
        ELSE IF count >= 1 THEN 40
        ELSE 10
      intervention ==
        IF score >= 90 THEN "risk_escalation: martingale"
        ELSE IF score >= 75 THEN "risk_escalation: escalation"
        ELSE IF score >= 50 THEN "risk_escalation: gradual"
        ELSE "risk_escalation: good"
  IN  Detection(score,
        << Entry(Str.escalation_events, Num(count)),
           Entry(Str.max_size_increase_pct,
                 Dec(ToFixed(maxEscalation.num, maxEscalation.den, 1), 1)),
           Entry(Str.longest_losing_streak,
                 Num(MaxSeq(Map(escalationEvents, LAMBDA e : e.streakLength), 0))) >>,
        intervention, affectedTrades)

(***************************************************************************)
(* 6. Overconfidence                                                       *)
(***************************************************************************)
\* The loop over the sorted trades: the current winning streak after trade k
\* and the hot-hand episodes found so far.  baselineSize = sum3 / 3.
HotHandScan(sorted) ==
  LET n == Len(sorted)
      sum3 == SumSeq(Map(SubSeq(sorted, 1, 3), LAMBDA t : t.total_value))
      scan[k \in 0..n] ==
        IF k = 0 THEN [currentWinStreak |-> 0, episodes |-> <<>>, ids |-> <<>>]
        ELSE
        LET before == scan[k - 1]
            trade == sorted[k]
        IN  IF Pnl(trade) > 0
            THEN LET currentWinStreak == before.currentWinStreak + 1
                     sizeIncrease == Frac((3 * trade.total_value - sum3) * 100, sum3)
                     postStreakPnl ==
                       SumSeq(Map(SubSeq(sorted, k + 1, Min(k + 3, n)), Pnl))
                 IN  IF currentWinStreak >= 3 /\ sizeIncrease.num > 20 * sizeIncrease.den
                     THEN [currentWinStreak |-> currentWinStreak,
                           episodes |-> Append(before.episodes,
                                               [streakLength |-> currentWinStreak,
                                                sizeIncreasePct |-> sizeIncrease,
                                                postStreakPnl |-> postStreakPnl]),
                           ids |-> Append(before.ids, trade.id)]
                     ELSE [before EXCEPT !.currentWinStreak = currentWinStreak]
            ELSE [before EXCEPT !.currentWinStreak = 0]
  IN  scan[n]

detectOverconfidence(trades) ==
  IF Len(trades) < 5 THEN NoDetection
  ELSE
  LET sorted == SortByTimestamp(trades)
      n == Len(sorted)
      scan == HotHandScan(sorted)
      hotHandEpisodes == scan.episodes
      affectedTrades == scan.ids
      count == Len(hotHandEpisodes)
      wins == Count(sorted, LAMBDA t : Pnl(t) > 0)
      \* tradesPerDay = n / max(1, daysBetween(first, last))
      spanMinutes == minutesBetween(sorted[1], sorted[n])
      tradesPerDayOver5 ==
        IF spanMinutes <= MinutesPerDay THEN n > 5
        ELSE n * MinutesPerDay > 5 * spanMinutes
      frequencyOverconfidence == tradesPerDayOver5 /\ wins * 100 < 55 * n
      sumPost == SumSeq(Map(hotHandEpisodes, LAMBDA e : e.postStreakPnl))
      sumSize == FracSum(Map(hotHandEpisodes, LAMBDA e : e.sizeIncreasePct))
      score ==
        IF count >= 3 /\ sumPost < 0 THEN 80
        ELSE IF count >= 2 \/ frequencyOverconfidence THEN 60
        ELSE IF count >= 1 THEN 40
        ELSE 15
      intervention ==
        IF score >= 75 THEN "overconfidence: detected"
        ELSE IF score >= 50 THEN "overconfidence: hot-hand"
        ELSE "overconfidence: good"
  IN  Detection(score,
        << Entry(Str.hot_hand_episodes, Num(count)),
           Entry(Str.avg_size_increase_after_wins_pct,
                 IF count > 0 THEN Dec(ToFixed(sumSize.num, sumSize.den * count, 1), 1)
                 ELSE Num(0)),
           Entry(Str.avg_post_streak_pnl,
                 IF count > 0 THEN Dec(ToFixed(sumPost, count, 2), 2) ELSE Num(0)),
           Entry(Str.win_rate_pct, Dec(ToFixed(wins * 100, n, 1), 1)) >>,
        intervention, affectedTrades)

(***************************************************************************)
(* 7. Concentration                                                        *)
(***************************************************************************)
detectConcentration(trades, positions) ==
  IF Len(positions) = 0 THEN NoDetection
  ELSE
  LET values == Map(positions, LAMBDA p : p.current_value)
      totalValue == SumSeq(values)
      \* marketShares[i] = values[i] / totalValue
      \* hhi = sumSquares / totalValue^2
      sumSquares == SumSeq(Map(values, LAMBDA v : v * v))
      maxValue == MaxSeq(values, values[1])
      \* positions.find(p => share(p) * 100 === maxAllocation)?.symbol || ''
      topHits == SelectSeq(positions, LAMBDA p : p.current_value = maxValue)
      topSymbol == IF topHits = <<>> THEN <<>> ELSE topHits[1].symbol
      sortedShares == SortBy(values, LAMBDA a, b : b - a)
      top3 == SumSeq(SubSeq(sortedShares, 1, Min(3, Len(sortedShares))))
      \* hhi in doubles.  Each share is a quotient rounded to a double, and
      \* so are its square and every partial sum.  For at most 3 positions
      \* whose values are whole multiples, up to 40, of one amount, the sum
      \* stands to 0.50, 0.25 and 0.15 as the exact index does, except for
      \* values in these proportions, in this order: their exact index is
      \* 0.5 and their sum in doubles is 0.5000000000000001.
      divisor[k \in 0..Len(values)] ==
        IF k = 0 THEN 0 ELSE GCD(values[k], divisor[k - 1])
      proportions == Map(values, LAMBDA v : v \div divisor[Len(values)])
      roundedUp ==
        proportions \in { <<1, 4, 9>>, <<1, 9, 4>>, <<4, 1, 9>>, <<9, 1, 4>>,
                          <<4, 9, 25>>, <<4, 25, 9>>, <<9, 4, 25>>, <<9, 25, 4>>,
                          <<25, 4, 9>>, <<25, 9, 4>> }
      score ==
        IF 2 * sumSquares > totalValue * totalValue THEN 95
        ELSE IF 2 * sumSquares = totalValue * totalValue /\ roundedUp THEN 95
        ELSE IF 4 * sumSquares > totalValue * totalValue THEN 70
        ELSE IF 100 * sumSquares > 15 * totalValue * totalValue THEN 45
        ELSE 15
      intervention ==
        IF score >= 90 THEN "concentration_bias: critical"
        ELSE IF score >= 70 THEN "concentration_bias: high"
        ELSE IF score >= 45 THEN "concentration_bias: moderate"
        ELSE "concentration_bias: diversified"
  IN  IF totalValue = 0
      THEN \* Every share is 0 / 0 = NaN, and so are hhi, maxAllocation and
           \* top3Concentration; no comparison with NaN holds, so the score
           \* is that of the last branch and find() finds no position.
           Detection(15,
             << Entry(Str.herfindahl_index, NaN),
                Entry(Str.max_allocation_pct, NaN),
                Entry(Str.top_symbol, StrVal(<<>>)),
                Entry(Str.top_3_concentration_pct, NaN),
                Entry(Str.num_positions, Num(Len(positions))) >>,
             "concentration_bias: diversified", <<>>)
      ELSE
      Detection(score,
        << Entry(Str.herfindahl_index, Dec(ToFixed(sumSquares, totalValue * totalValue, 3), 3)),
           Entry(Str.max_allocation_pct, Dec(ToFixed(maxValue * 100, totalValue, 1), 1)),
           Entry(Str.top_symbol, StrVal(topSymbol)),
           Entry(Str.top_3_concentration_pct, Dec(ToFixed(top3 * 100, totalValue, 1), 1)),
           Entry(Str.num_positions, Num(Len(positions))) >>,
        intervention, <<>>)

(***************************************************************************)
(* 8. Fee drag                                                             *)
(***************************************************************************)
detectFeeDrag(trades) ==
  IF Len(trades) = 0 THEN NoDetection
  ELSE
  LET totalFees == SumSeq(Map(trades, LAMBDA t : t.fees))
      netPnl == SumSeq(Map(trades, Pnl))
      grossPnl == netPnl + totalFees
      \* feeDragRatio = grossPnl !== 0 ? totalFees / |grossPnl| * 100 : 0
      ratioNum == IF grossPnl # 0 THEN totalFees * 100 ELSE 0
      ratioDen == IF grossPnl # 0 THEN Abs(grossPnl) ELSE 1
      tradingDays == Cardinality({DayOf(trades[i]) : i \in 1..Len(trades)})
      totalVolume == SumSeq(Map(trades, LAMBDA t : t.total_value))
      \* annualizedFeeDrag = totalFees / totalVolume * (365 / max(days, 1)) * 100
      annNum == totalFees * 365 * 100
      annDen == totalVolume * Max(tradingDays, 1)
      tradesWhereFeeExceededProfit == Count(trades, LAMBDA t : Abs(Pnl(t)) < t.fees)
      \* The comparisons in doubles.  For whole-dollar fees up to $30, a
      \* gross P&L up to $600, and a volume up to $3000 in steps of $10 or up
      \* to $60000 in steps of $100 over at most 7 days, feeDragRatio and
      \* annualizedFeeDrag stand to the thresholds as the exact quotients
      \* do, except for these <<totalFees, totalVolume, tradingDays>>: their
      \* exact annualized drag is 3 or 1.5 and the product in doubles is
      \* 3.0000000000000004 or 1.5000000000000002.
      annRoundedUp ==
        <<totalFees, totalVolume, tradingDays>> \in
          { <<3, 7300, 5>>, <<3, 14600, 5>>, <<3, 36500, 1>>, <<3, 36500, 2>>,
            <<6, 14600, 5>>, <<6, 29200, 5>>, <<6, 36500, 2>>, <<6, 36500, 4>>,
            <<9, 21900, 5>>, <<9, 43800, 5>>, <<12, 29200, 5>>, <<12, 36500, 4>>,
            <<12, 58400, 5>>, <<15, 36500, 5>>, <<18, 43800, 5>>, <<21, 51100, 5>>,
            <<24, 58400, 5>> }
      annAbove3 == annNum > 3 * annDen \/ (annNum = 3 * annDen /\ annRoundedUp)
      annAbove1_5 == 2 * annNum > 3 * annDen \/ (2 * annNum = 3 * annDen /\ annRoundedUp)
      score ==
        IF ratioNum > 30 * ratioDen \/ annNum > 5 * annDen THEN 90
        ELSE IF ratioNum > 15 * ratioDen \/ annAbove3 THEN 70
        ELSE IF ratioNum > 5 * ratioDen \/ annAbove1_5 THEN 45
        ELSE 15
      intervention ==
        IF score >= 90 THEN "fee_drag: critical"
        ELSE IF score >= 70 THEN "fee_drag: high"
        ELSE IF score >= 45 THEN "fee_drag: moderate"
        ELSE "fee_drag: good"
  IN  Detection(score,
        << Entry(Str.total_fees, Num(totalFees)),
           Entry(Str.gross_pnl, Num(grossPnl)),
           Entry(Str.net_pnl, Num(netPnl)),
           Entry(Str.fee_drag_ratio_pct, Dec(ToFixed(ratioNum, ratioDen, 1), 1)),
           Entry(Str.annualized_fee_drag_pct, Dec(ToFixed(annNum, annDen, 2), 2)),
           Entry(Str.pct_trades_where_fees_exceeded_profit,
                 Dec(ToFixed(tradesWhereFeeExceededProfit * 100, Len(trades), 1), 1)) >>,
        intervention, <<>>)

(***************************************************************************)
(* 9. Churn                                                                *)
(***************************************************************************)
\* The pnl of a round trip from its two prices alone.
ChurnPnlOfPrices(pair) == (pair[2].price - pair[1].price) * pair[1].quantity

\* sellTrade.pnl || ((sellTrade.price - buyTrade.price) * buyTrade.quantity)
ChurnPnl(pair) ==
  IF Pnl(pair[2]) # 0 THEN Pnl(pair[2])
  ELSE (pair[2].price - pair[1].price) * pair[1].quantity

ChurnFees(pair) == pair[1].fees + pair[2].fees

detectChurn(trades) ==
  IF Len(trades) < 4 THEN NoDetection
  ELSE
  LET churnInstances ==
        SelectSeq(RoundTrips(trades),
                  LAMBDA p : minutesBetween(p[1], p[2]) < 7 * MinutesPerDay)
      affectedTrades == Map(churnInstances, LAMBDA p : p[2].id)
      count == Len(churnInstances)
      n == Len(trades)
      \* churnRate = count / n * 100;  avgChurnPnl = sumPnl / count
      sumPnl == SumSeq(Map(churnInstances, ChurnPnl))
      totalValueLostToChurn ==
        SumSeq(Map(SelectSeq(churnInstances, LAMBDA p : ChurnPnl(p) - ChurnFees(p) < 0),
                   LAMBDA p : ChurnPnl(p) - ChurnFees(p)))
      sumHolding == SumSeq(Map(churnInstances, LAMBDA p : minutesBetween(p[1], p[2])))
      score ==
        IF count * 100 > 40 * n /\ sumPnl < 0 THEN 80
        ELSE IF count * 100 > 30 * n THEN 60
        ELSE IF count * 100 > 20 * n THEN 40
        ELSE IF count * 100 > 10 * n THEN 25
        ELSE 10
      intervention ==
        IF score >= 75 THEN "churn: value-destructive"
        ELSE IF score >= 50 THEN "churn: significant"
        ELSE IF score >= 25 THEN "churn: some"
        ELSE "churn: good"
  IN  Detection(score,
        << Entry(Str.churn_instances, Num(count)),
           Entry(Str.churn_rate_pct, Dec(ToFixed(count * 100, n, 1), 1)),
           Entry(Str.avg_churn_pnl,
                 IF count > 0 THEN Dec(ToFixed(sumPnl, count, 2), 2) ELSE Num(0)),
           Entry(Str.total_value_lost_to_churn, Num(totalValueLostToChurn)),
           Entry(Str.avg_churn_holding_days,
                 IF count > 0 THEN Dec(ToFixed(sumHolding, MinutesPerDay * count, 1), 1)
                 ELSE Num(0)) >>,
        intervention, affectedTrades)

(***************************************************************************)
(* analyzeBiases                                                           *)
(***************************************************************************)
\* The detectors array, each detect() evaluated.
RunDetectors(trades, positions) ==
  << [type |-> "overtrading", result |-> detectOvertrading(trades)],
     [type |-> "loss_aversion", result |-> detectLossAversion(trades)],
     [type |-> "revenge_trading", result |-> detectRevengeTrading(trades)],
     [type |-> "disposition_effect", result |-> detectDispositionEffect(trades)],
     [type |-> "risk_escalation", result |-> detectRiskEscalation(trades)],
     [type |-> "overconfidence", result |-> detectOverconfidence(trades)],
     [type |-> "concentration_bias", result |-> detectConcentration(trades, positions)],
     [type |-> "fee_drag", result |-> detectFeeDrag(trades)],
     [type |-> "churn", result |-> detectChurn(trades)] >>

\* The filter with >= for >.
IsDetectedOrZero(result) == result.score >= 0

\* if (result.score > 0)
IsDetected(result) == result.score > 0

\* An id that also hashes the score.
deterministicIdScored(type, result, trades) ==
  LET symbol == getBiasSymbolContext(result.evidence, result.affectedTrades, trades)
  IN  buildDeterministicBiasId(type, symbol,
        Append(result.evidence, Entry(Str.none, Num(result.score))))

\* const symbol = getBiasSymbolContext(...); const deterministicId = ...
deterministicId(type, result, trades) ==
  LET symbol == getBiasSymbolContext(result.evidence, result.affectedTrades, trades)
  IN  buildDeterministicBiasId(type, symbol, result.evidence)

\* A record whose id also hashes the clock reading.
BiasRecordStamped(type, result, trades, clock) ==
  LET symbol == getBiasSymbolContext(result.evidence, result.affectedTrades, trades)
  IN  [id |-> buildDeterministicBiasId(type, symbol,
                 Append(result.evidence, Entry(Str.none, Num(clock)))),
       session_id |-> "current",
       bias_type |-> type,
       score |-> result.score,
       severity |-> getSeverity(result.score),
       metrics |-> result.evidence,
       affected_trades |-> result.affectedTrades,
       intervention |-> result.intervention,
       detected_at |-> clock]

\* The record pushed for a detected bias; detected_at is the clock reading.
BiasRecord(type, result, trades, clock) ==
  [id |-> deterministicId(type, result, trades),
   session_id |-> "current",
   bias_type |-> type,
   score |-> result.score,
   severity |-> getSeverity(result.score),
   metrics |-> result.evidence,
   affected_trades |-> result.affectedTrades,
   intervention |-> result.intervention,
   detected_at |-> clock]

\* The comparator without its tie-break on the id.
byScoreOnly(a, b) == b.score - a.score

byScoreThenId(a, b) ==
  IF b.score # a.score THEN b.score - a.score ELSE localeCompare(a.id, b.id)

\* The score without the mean and the clamp.
DisciplineScoreOfSum(totalScore, count) == 100 - totalScore

\* Math.round(Math.max(0, Math.min(100, 100 - totalScore / count)))
DisciplineScore(totalScore, count) ==
  IF count = 0 THEN 100
  ELSE MathRound(Max(0, Min(100 * count, 100 * count - totalScore)), count)

\* A summary whose high count takes every score of 50 or more.
SummaryHighOrWorse(biases) ==
  [totalBiases |-> Len(biases),
   criticalBiases |-> Count(biases, LAMBDA b : b.severity = "critical"),
   highBiases |-> Count(biases, LAMBDA b : b.score >= 50),
   topConcern |-> IF biases = <<>> THEN "none" ELSE biases[1].bias_type]

Summary(biases) ==
  [totalBiases |-> Len(biases),
   criticalBiases |-> Count(biases, LAMBDA b : b.severity = "critical"),
   highBiases |-> Count(biases, LAMBDA b : b.severity = "high"),
   topConcern |-> IF biases = <<>> THEN "none" ELSE biases[1].bias_type]

\* The mean taken over the detected biases only.
AggregateOverDetected(detectors, trades, clock) ==
  LET totalScore == SumSeq(Map(detectors, LAMBDA d : d.result.score))
      pushed == Map(SelectSeq(detectors, LAMBDA d : IsDetected(d.result)),
                    LAMBDA d : BiasRecord(d.type, d.result, trades, clock))
      biases == SortBy(pushed, byScoreThenId)
  IN  [biases |-> biases,
       disciplineScore |-> DisciplineScore(totalScore, Len(pushed)),
       summary |-> Summary(biases)]

\* The body of analyzeBiases after the detectors have been evaluated.
Aggregate(detectors, trades, clock) ==
  LET totalScore == SumSeq(Map(detectors, LAMBDA d : d.result.score))
      pushed == Map(SelectSeq(detectors, LAMBDA d : IsDetected(d.result)),
                    LAMBDA d : BiasRecord(d.type, d.result, trades, clock))
      biases == SortBy(pushed, byScoreThenId)
  IN  [biases |-> biases,
       disciplineScore |-> DisciplineScore(totalScore, Len(detectors)),
       summary |-> Summary(biases)]

analyzeBiases(trades, positions, clock) ==
  Aggregate(RunDetectors(trades, positions), trades, clock)

(***************************************************************************)
(* computeBehaviorReport (behaviorReport.ts), given what its call of       *)
(* analyzeBiases returned.                                                 *)
(***************************************************************************)
computeBehaviorReport(analysis, clock) ==
  LET sortedBiases == SortBy(analysis.biases, byScoreThenId)
      criticalCount == Count(sortedBiases, LAMBDA b : b.severity = "critical")
      highCount == Count(sortedBiases, LAMBDA b : b.severity = "high")
      concerns == SelectSeq(sortedBiases, LAMBDA b : b.score > 20)
  IN  [version |-> "1",
       generatedAt |-> clock,
       disciplineScore |-> analysis.disciplineScore,
       biases |-> sortedBiases,
       highlights |->
         [topConcerns |-> SubSeq(concerns, 1, Min(3, Len(concerns))),
          criticalCount |-> criticalCount,
          highCount |-> highCount]]

(***************************************************************************)
(* Bounds and the inputs of the model.                                     *)
(***************************************************************************)
MaxTrades == 5

MaxClock == 2

\* The orders a caller records: symbol, side, quantity, price, fees, the
\* realized P&L when the record carries one, and the minutes elapsed since
\* the previous order.
BuyOrder ==
  [symbol |-> Str.AAPL, action |-> "BUY", quantity |-> 14, price |-> 10,
   fees |-> 1, hasPnl |-> FALSE, pnl |-> 0, gap |-> 10]

LossOrder ==
  [symbol |-> Str.MSFT, action |-> "SELL", quantity |-> 10, price |-> 10,
   fees |-> 1, hasPnl |-> TRUE, pnl |-> -60, gap |-> 3]

WinOrder ==
  [symbol |-> Str.AAPL, action |-> "SELL", quantity |-> 15, price |-> 10,
   fees |-> 0, hasPnl |-> TRUE, pnl |-> 40, gap |-> 2880]

TradePool == <<BuyOrder, LossOrder, WinOrder>>

\* The trade record the store creates for an order, given the trades it
\* already holds (newest first), when every order is executed at an instant
\* of its own: the ids, which are readings of the clock, are then distinct
\* and numbered here in the order of execution.
NewTrade(held, order) ==
  [id |-> Len(held) + 1,
   symbol |-> order.symbol,
   action |-> order.action,
   quantity |-> order.quantity,
   price |-> order.price,
   total_value |-> order.quantity * order.price,
   fees |-> order.fees,
   timestamp |-> (IF held = <<>> THEN 0 ELSE held[1].timestamp) + order.gap,
   hasPnl |-> order.hasPnl,
   pnl |-> order.pnl]

Position(symbol, quantity, price) ==
  [symbol |-> symbol, quantity |-> quantity, current_price |-> price,
   current_value |-> quantity * price]

PositionSets ==
  { <<>>,
    << Position(Str.MSFT, 3, 100), Position(Str.AAPL, 5, 100), Position(Str.V, 2, 100) >>,
    << Position(Str.V, 4, 50) >> }

(***************************************************************************)
(* The portfolio store (portfolioStore.ts).  Money is in whole dollars;    *)
(* an average cost and what derives from it are exact fractions.           *)
(***************************************************************************)
INITIAL_CASH == 100000

chartPalette ==
  << "#6366F1", "#F59E0B", "#10B981", "#EF4444", "#8B5CF6", "#EC4899", "#06B6D4", "#84CC16" >>

getChartColor(index) == chartPalette[(index % Len(chartPalette)) + 1]

FracOf(n) == Frac(n, 1)

FracMul(a, b) == Frac(a.num * b.num, a.den * b.den)

FracSub(a, b) == FracAdd(a, [num |-> -b.num, den |-> b.den])

\* (a / b) * 100, for b > 0
FracPercent(a, b) == Frac(a.num * b.den * 100, a.den * b.num)

\* The index of the symbol's position, and of the first position when the
\* symbol has none.
FindPositionIndexOrFirst(held, symbol) ==
  IF \E i \in 1..Len(held) : held[i].symbol = symbol
  THEN CHOOSE i \in 1..Len(held) :
         held[i].symbol = symbol /\ \A j \in 1..(i - 1) : held[j].symbol # symbol
  ELSE IF held = <<>> THEN 0 ELSE 1

\* positions.findIndex(p => p.symbol === symbol), counted from 1; 0 for -1.
FindPositionIndex(held, symbol) ==
  IF \E i \in 1..Len(held) : held[i].symbol = symbol
  THEN CHOOSE i \in 1..Len(held) :
         held[i].symbol = symbol /\ \A j \in 1..(i - 1) : held[j].symbol # symbol
  ELSE 0

calculateAllocations(held, cash, totalValue) ==
  LET cashPart ==
        IF cash > 0 /\ totalValue > 0
        THEN << [symbol |-> <<67, 97, 115, 104>>, value |-> cash,
                 percentage |-> Frac(cash * 100, totalValue),
                 color |-> "#64748B", asset_type |-> "cash"] >>
        ELSE <<>>
      shown == SelectSeq(ArrayOf(Len(held), LAMBDA i : i),
                         LAMBDA i : held[i].current_value > 0 /\ totalValue > 0)
  IN  cashPart \o
      Map(shown, LAMBDA i :
        [symbol |-> held[i].symbol, value |-> held[i].current_value,
         percentage |-> Frac(held[i].current_value * 100, totalValue),
         color |-> getChartColor(i - 1), asset_type |-> held[i].asset_type])

\* totalValue, totalPnl, totalPnlPercent and allocations, as every handler
\* of the store computes them from the new positions and the new cash.
Totals(held, cash) ==
  LET positionsValue == SumSeq(Map(held, LAMBDA p : p.current_value))
      newTotalValue == cash + positionsValue
      totalCostBasis == FracSum(Map(held, LAMBDA p : FracMul(p.avg_cost, FracOf(p.quantity))))
      newTotalPnl == FracSum(Map(held, LAMBDA p : p.pnl))
  IN  [totalValue |-> newTotalValue,
       totalPnl |-> newTotalPnl,
       totalPnlPercent |-> IF totalCostBasis.num > 0
                           THEN FracPercent(newTotalPnl, totalCostBasis) ELSE FracOf(0),
       allocations |-> calculateAllocations(held, cash, newTotalValue)]

\* The position executeBuy leaves for the symbol: a new one, or the
\* existing one at the average cost of the old and the new units.
BoughtPosition(held, symbol, quantity, price, assetType) ==
  LET existingPositionIndex == FindPositionIndex(held, symbol)
  IN  IF existingPositionIndex > 0
      THEN LET existing == held[existingPositionIndex]
               totalQuantity == existing.quantity + quantity
               totalCostBasis == FracAdd(FracMul(existing.avg_cost, FracOf(existing.quantity)),
                                         FracOf(price * quantity))
               newAvgCost == FracMul(totalCostBasis, Frac(1, totalQuantity))
               currentValue == totalQuantity * price
               pnl == FracSub(FracOf(currentValue), FracMul(newAvgCost, FracOf(totalQuantity)))
           IN  [held EXCEPT ![existingPositionIndex] =
                  [existing EXCEPT !.quantity = totalQuantity,
                                   !.avg_cost = newAvgCost,
                                   !.current_price = price,
                                   !.current_value = currentValue,
                                   !.pnl = pnl,
                                   !.pnl_percent =
                                     FracPercent(pnl, FracMul(newAvgCost, FracOf(totalQuantity)))]]
      ELSE Append(held,
             [symbol |-> symbol, quantity |-> quantity, avg_cost |-> FracOf(price),
              current_price |-> price, current_value |-> quantity * price,
              pnl |-> FracOf(0), pnl_percent |-> FracOf(0), asset_type |-> assetType])

\* The positions of a sale that keeps a position of which nothing remains.
SoldPositionKept(held, positionIndex, quantity, price) ==
  LET position == held[positionIndex]
      remainingQuantity == position.quantity - quantity
  IN  [held EXCEPT ![positionIndex] =
         [position EXCEPT !.quantity = remainingQuantity,
                          !.current_price = price,
                          !.current_value = remainingQuantity * price]]

\* The positions executeSell leaves: the position removed when nothing
\* remains of it, reduced and revalued at the sale price otherwise.
SoldPosition(held, positionIndex, quantity, price) ==
  LET position == held[positionIndex]
      remainingQuantity == position.quantity - quantity
      currentValue == remainingQuantity * price
      pnl == FracSub(FracOf(currentValue), FracMul(position.avg_cost, FracOf(remainingQuantity)))
  IN  IF remainingQuantity <= 0
      THEN SelectSeq(held, LAMBDA p : p # position)
      ELSE [held EXCEPT ![positionIndex] =
              [position EXCEPT !.quantity = remainingQuantity,
                               !.current_price = price,
                               !.current_value = currentValue,
                               !.pnl = pnl,
                               !.pnl_percent =
                                 FracPercent(pnl, FracMul(position.avg_cost,
                                                          FracOf(remainingQuantity)))]]

\* The trade record of the store: id `trade-${Date.now()}` and timestamp
\* new Date().toISOString(), both the reading of the clock in milliseconds.
StoreTrade(clock, held, symbol, action, quantity, price, fees, assetType, hasPnl, pnl) ==
  [id |-> clock, session_id |-> "demo-session-1", user_id |-> "demo-user",
   symbol |-> symbol, action |-> action, quantity |-> quantity, price |-> price,
   total_value |-> quantity * price, fees |-> fees, timestamp |-> clock,
   asset_type |-> assetType, hasPnl |-> hasPnl, pnl |-> pnl]

(***************************************************************************)
(* The growth store (growthStore.ts).  A date key is the number of the     *)
(* day, an ISO instant the reading of the clock in minutes, null is -1.    *)
(* growthProgress and totalPassiveIncome are kept in hundredths.           *)
(***************************************************************************)
null == -1

MILESTONES ==
  << [id |-> "discipline_seed", xp |-> 50],
     [id |-> "consistency_sprout", xp |-> 150],
     [id |-> "golden_habit_sapling", xp |-> 300] >>

\* streakMultiplierStep is in hundredths: 0.03.
XP_MODEL ==
  [baseScale |-> 100, highSeverityPenalty |-> 15, riskEscalationPenalty |-> 20,
   concentrationPenalty |-> 15, disciplineImprovementThreshold |-> 5,
   disciplineImprovementBonus |-> 10, highSeverityImprovementBonus |-> 5,
   streakMultiplierStep |-> 3, streakMultiplierCapDays |-> 10,
   streakIncrementMinDiscipline |-> 70, streakIncrementMaxHighSeverity |-> 1,
   streakResetDiscipline |-> 60, streakResetHighSeverity |-> 3]

INITIAL_TREE_STATE ==
  [growthProgress |-> 0, waterLevel |-> 0, sunLevel |-> 0, soilLevel |-> 0,
   lastGrowthDate |-> null, totalPassiveIncome |-> 0]

ACHIEVEMENTS ==
  [streak70_5 |-> "streak-70-5", streak80_3 |-> "streak-80-3",
   discipline90 |-> "discipline-90", cleanDay |-> "clean-day",
   sapling |-> "stage-sapling", golden |-> "stage-golden"]

InitialGrowth ==
  [xp |-> 0, streakDays |-> 0, lastEvaluatedDate |-> null,
   milestonesUnlocked |-> <<>>, achievements |-> <<>>,
   discipline70StreakDays |-> 0, discipline80StreakDays |-> 0,
   cleanDayStreakDays |-> 0, previousDisciplineScore |-> null,
   previousHighSeverityCount |-> null, tree |-> INITIAL_TREE_STATE]

\* The local date of the clock reading.
getTodayKey(clock) == clock \div MinutesPerDay

IsHighRiskSeverity(bias) == bias.severity = "high" \/ bias.severity = "critical"

countHighSeverity(r) == Count(r.biases, IsHighRiskSeverity)

getRiskPenalty(r) ==
  SumSeq(Map(r.biases, LAMBDA bias :
    IF ~IsHighRiskSeverity(bias) THEN 0
    ELSE (IF bias.bias_type = "risk_escalation" THEN XP_MODEL.riskEscalationPenalty ELSE 0)
         + (IF bias.bias_type = "concentration_bias" THEN XP_MODEL.concentrationPenalty ELSE 0)))

unlockAchievement(achievements, id, unlockedAt) ==
  IF \E i \in 1..Len(achievements) : achievements[i].id = id
  THEN achievements
  ELSE Append(achievements, [id |-> id, unlockedAt |-> unlockedAt])

\* The guard of evaluateFromReport left out: every call counts.
NeverEvaluated(state, today) == FALSE

\* if (state.lastEvaluatedDate === today) return;
AlreadyEvaluated(state, today) == state.lastEvaluatedDate = today

\* The state evaluateFromReport(report) sets, called at the clock reading.
EvaluatedFrom(state, r, clock) ==
  LET today == getTodayKey(clock)
      currentDiscipline == r.disciplineScore
      currentHighSeverity == countHighSeverity(r)
      nowIso == clock
      prevDiscipline == state.previousDisciplineScore
      prevHighSeverity == state.previousHighSeverityCount
      riskPenalty == getRiskPenalty(r)
      \* normalizedDiscipline = clamped / 100
      clamped == Max(0, Min(100, currentDiscipline))
      baseXP == MathRound(clamped * clamped * XP_MODEL.baseScale, 100 * 100)
      penalty == currentHighSeverity * XP_MODEL.highSeverityPenalty
      improvementBonus ==
        (IF prevDiscipline # null
            /\ currentDiscipline >= prevDiscipline + XP_MODEL.disciplineImprovementThreshold
         THEN XP_MODEL.disciplineImprovementBonus ELSE 0)
        + (IF prevHighSeverity # null /\ currentHighSeverity < prevHighSeverity
           THEN XP_MODEL.highSeverityImprovementBonus ELSE 0)
      \* streakMultiplier, in hundredths
      streakMultiplier ==
        100 + Min(state.streakDays, XP_MODEL.streakMultiplierCapDays) * XP_MODEL.streakMultiplierStep
      xpGain ==
        Max(0, MathRound((baseXP - penalty - riskPenalty + improvementBonus) * streakMultiplier, 100))
      qualifiesForStreak ==
        /\ currentDiscipline >= XP_MODEL.streakIncrementMinDiscipline
        /\ currentHighSeverity <= XP_MODEL.streakIncrementMaxHighSeverity
      shouldResetStreak ==
        \/ currentDiscipline < XP_MODEL.streakResetDiscipline
        \/ currentHighSeverity >= XP_MODEL.streakResetHighSeverity
      nextStreak ==
        IF shouldResetStreak THEN 0
        ELSE IF qualifiesForStreak THEN state.streakDays + 1
        ELSE state.streakDays
      nextDiscipline70Streak == IF currentDiscipline >= 70 THEN state.discipline70StreakDays + 1 ELSE 0
      nextDiscipline80Streak == IF currentDiscipline >= 80 THEN state.discipline80StreakDays + 1 ELSE 0
      nextCleanDayStreak == IF currentHighSeverity = 0 THEN state.cleanDayStreakDays + 1 ELSE 0
      nextXp == Max(0, state.xp + xpGain)
      reached == SelectSeq(MILESTONES, LAMBDA m :
                   nextXp >= m.xp
                   /\ \A i \in 1..Len(state.milestonesUnlocked) : state.milestonesUnlocked[i] # m.id)
      unlocked == state.milestonesUnlocked \o Map(reached, LAMBDA m : m.id)
      a1 == IF nextDiscipline70Streak >= 5
            THEN unlockAchievement(state.achievements, ACHIEVEMENTS.streak70_5, nowIso)
            ELSE state.achievements
      a2 == IF nextDiscipline80Streak >= 3
            THEN unlockAchievement(a1, ACHIEVEMENTS.streak80_3, nowIso) ELSE a1
      a3 == IF currentDiscipline >= 90
            THEN unlockAchievement(a2, ACHIEVEMENTS.discipline90, nowIso) ELSE a2
      a4 == IF currentHighSeverity = 0
            THEN unlockAchievement(a3, ACHIEVEMENTS.cleanDay, nowIso) ELSE a3
      a5 == IF state.tree.growthProgress >= 100 * 100
            THEN unlockAchievement(a4, ACHIEVEMENTS.sapling, nowIso) ELSE a4
      nextAchievements ==
            IF state.tree.growthProgress >= 1500 * 100
            THEN unlockAchievement(a5, ACHIEVEMENTS.golden, nowIso) ELSE a5
  IN  IF AlreadyEvaluated(state, today) THEN state
      ELSE [state EXCEPT !.xp = nextXp,
                         !.streakDays = nextStreak,
                         !.lastEvaluatedDate = today,
                         !.milestonesUnlocked = unlocked,
                         !.achievements = nextAchievements,
                         !.discipline70StreakDays = nextDiscipline70Streak,
                         !.discipline80StreakDays = nextDiscipline80Streak,
                         !.cleanDayStreakDays = nextCleanDayStreak,
                         !.previousDisciplineScore = currentDiscipline,
                         !.previousHighSeverityCount = currentHighSeverity]

\* The state upgradeSystem(type) sets, or the state as it is when the
\* upgrade is refused.
\* The state applyDailyGrowth and simulateDay set after the given hours:
\* getGrowthRate is 1 * (1 + waterLevel * 0.05 + sunLevel * 0.07) and
\* getIncomePerHour is 1 * (1 + soilLevel * 0.10) * the stage's multiplier.
GrownBy(state, hours, clock) ==
  LET tree == state.tree
      getStageByProgress(growthProgress) ==
        IF growthProgress >= 1500 * 100 THEN "golden"
        ELSE IF growthProgress >= 700 * 100 THEN "mature"
        ELSE IF growthProgress >= 300 * 100 THEN "young"
        ELSE IF growthProgress >= 100 * 100 THEN "sapling"
        ELSE "seed"
      \* getStageMultiplier, in tenths
      getStageMultiplier(stage) ==
        IF stage = "golden" THEN 30
        ELSE IF stage = "mature" THEN 20
        ELSE IF stage = "young" THEN 15
        ELSE IF stage = "sapling" THEN 12
        ELSE 10
      growthRate == Max(0, 100 + tree.waterLevel * 5 + tree.sunLevel * 7)
      incomePerHour ==
        Max(0, (10 + tree.soilLevel) * getStageMultiplier(getStageByProgress(tree.growthProgress)))
      nextGrowthProgress == Max(0, tree.growthProgress + growthRate * hours)
      nowIso == clock
      a1 == IF nextGrowthProgress >= 100 * 100
            THEN unlockAchievement(state.achievements, ACHIEVEMENTS.sapling, nowIso)
            ELSE state.achievements
      nextAchievements ==
            IF nextGrowthProgress >= 1500 * 100
            THEN unlockAchievement(a1, ACHIEVEMENTS.golden, nowIso) ELSE a1
  IN  [state EXCEPT !.achievements = nextAchievements,
                    !.tree.growthProgress = nextGrowthProgress,
                    !.tree.totalPassiveIncome =
                      Max(0, tree.totalPassiveIncome + incomePerHour * hours),
                    !.tree.lastGrowthDate = nowIso]

\* The state applyDailyGrowth() sets, called at the clock reading.
DailyGrowthApplied(state, clock) ==
  LET today == getTodayKey(clock)
      previous == state.tree.lastGrowthDate
      diffHours == (clock - previous) \div 60
  IN  IF previous # null /\ getTodayKey(previous) = today THEN state
      ELSE GrownBy(state, IF previous # null THEN Max(1, diffHours) ELSE 24, clock)

\* What upgradeSystem(type) returns.
UpgradeReturns(state, levelKey) ==
  LET currentLevel == state.tree[levelKey]
      cost == 200 * (currentLevel + 1)
  IN  IF currentLevel >= 5 THEN FALSE
      ELSE IF state.xp < cost \/ cost <= 0 THEN FALSE
      ELSE TRUE

\* upgradeSystem without the test of xp against the cost.
UpgradedOnCredit(state, levelKey) ==
  LET currentLevel == state.tree[levelKey]
      cost == 200 * (currentLevel + 1)
  IN  IF currentLevel >= 5 THEN state
      ELSE [state EXCEPT !.xp = state.xp - cost, !.tree[levelKey] = currentLevel + 1]

UpgradedSystem(state, levelKey) ==
  LET currentLevel == state.tree[levelKey]
      cost == 200 * (currentLevel + 1)
  IN  IF currentLevel >= 5 THEN state
      ELSE IF state.xp < cost \/ cost <= 0 THEN state
      ELSE [state EXCEPT !.xp = state.xp - cost, !.tree[levelKey] = currentLevel + 1]

\* The report of the growth page's developer tools.
makeMockBiases(count, severity, clock) ==
  ArrayOf(count, LAMBDA idx :
    [id |-> <<"mock-bias", severity, idx - 1>>, session_id |-> "dev",
     bias_type |-> "overtrading", score |-> IF severity = "critical" THEN 85 ELSE 65,
     severity |-> severity, metrics |-> <<>>, affected_trades |-> <<>>,
     intervention |-> "Dev simulation", detected_at |-> clock])

makeMockReport(disciplineScore, highSeverityCount, clock) ==
  LET clampedScore == Max(0, Min(100, disciplineScore))
      biases == makeMockBiases(Max(0, highSeverityCount), "high", clock)
  IN  [version |-> "1", generatedAt |-> clock, disciplineScore |-> clampedScore,
       biases |-> biases,
       highlights |-> [topConcerns |-> SubSeq(biases, 1, Min(3, Len(biases))),
                       criticalCount |-> 0, highCount |-> Len(biases)]]

\* trades.sort(byTimestamp): a sort of the array itself would leave the
\* caller's array in timestamp order.
TradesAfterSortInPlace(trades) == SortByTimestamp(trades)

\* [...trades].sort(byTimestamp): every detector that needs the trades in
\* timestamp order sorts a spread copy, and no detector assigns to a trade
\* or a position, so the caller's array is after the call what it was.
TradesAfterSort(trades) == trades

NoAnalysis == [biases |-> <<>>, disciplineScore |-> -1, summary |-> <<>>]

NoReport == [version |-> "0", generatedAt |-> -1]

NoCall ==
  [made |-> FALSE, trades |-> <<>>, positions |-> <<>>, detections |-> <<>>,
   analysis |-> NoAnalysis, interleaved |-> FALSE]

(***************************************************************************)
(* State.                                                                  *)
(***************************************************************************)
VARIABLE trades      \* the trades array handed to the engine, newest first
VARIABLE positions   \* the positions array handed to the engine
VARIABLE now         \* the wall clock read by new Date()
VARIABLE detections  \* what the nine detectors returned in the last call
VARIABLE analysis    \* what analyzeBiases returned in the last call
VARIABLE report      \* what computeBehaviorReport returned in the last call
VARIABLE earlier     \* the arguments and the result of one earlier call
VARIABLE cashBalance \* the cash of the portfolio store
VARIABLE totals      \* the computed values of the portfolio store
VARIABLE growth      \* the state of the growth store
VARIABLE returned    \* the last call of a portfolio handler and what it returned

vars == <<trades, positions, now, detections, analysis, report, earlier,
          cashBalance, totals, growth, returned>>

\* What the stores hold besides the trades and the positions.
account == <<cashBalance, totals, growth, returned>>

Init ==
  /\ trades = <<>>
  /\ positions = <<>>
  /\ now = 0
  /\ detections = <<>>
  /\ analysis = NoAnalysis
  /\ report = NoReport
  /\ earlier = NoCall
  /\ cashBalance = INITIAL_CASH
  /\ totals = Totals(<<>>, INITIAL_CASH)
  /\ growth = InitialGrowth
  /\ returned = [call |-> [handler |-> "none"], value |-> "undefined"]

\* A result belongs to the arrays it was computed from: the caller drops it
\* when the arrays change.
DropResults ==
  /\ detections' = <<>>
  /\ analysis' = NoAnalysis
  /\ report' = NoReport

\* trades: [newTrade, ...state.trades]: an executed order's trade is put in
\* front of the array the engine is given.
RecordTrade(order) ==
  /\ Len(trades) < MaxTrades
  /\ trades' = <<NewTrade(trades, order)>> \o trades
  /\ DropResults
  /\ UNCHANGED <<positions, now, earlier, account>>

\* positions: newPositions: the positions array the engine is given is
\* replaced by another snapshot.
SetPositions(ps) ==
  /\ positions # ps
  /\ positions' = ps
  /\ DropResults
  /\ UNCHANGED <<trades, now, earlier, account>>

\* computeBehaviorReport({ trades, positions }), which calls
\* analyzeBiases(trades, positions).  A second call at the same instant on
\* the same arrays is not a new step.
Report ==
  /\ report.generatedAt # now
  /\ detections' = RunDetectors(trades, positions)
  /\ analysis' = Aggregate(detections', trades, now)
  /\ report' = computeBehaviorReport(analysis', now)
  /\ earlier' = IF earlier # NoCall /\ (earlier.trades # trades \/ earlier.positions # positions)
                THEN [earlier EXCEPT !.interleaved = TRUE]
                ELSE earlier
  /\ trades' = TradesAfterSort(trades)
  /\ UNCHANGED <<positions, now, account>>

Next ==
  \/ \E i \in 1..Len(TradePool) : RecordTrade(TradePool[i])
  \/ \E ps \in PositionSets : SetPositions(ps)
  \/ Report

Spec == Init /\ [][Next]_vars

(***************************************************************************)
(* Repeated calls: the caller switches between whole trade histories, the  *)
(* clock advances, and one earlier call is kept for comparison.            *)
(***************************************************************************)
\* The trades array after the given orders, oldest order first.
HistoryOf(orders) ==
  LET held[k \in 0..Len(orders)] ==
        IF k = 0 THEN <<>> ELSE <<NewTrade(held[k - 1], orders[k])>> \o held[k - 1]
  IN  held[Len(orders)]

\* A losing order placed more than two days after the previous one.
LateLossOrder == [LossOrder EXCEPT !.gap = 2900]

Histories ==
  { HistoryOf(<<LossOrder, LossOrder, BuyOrder, WinOrder, LossOrder>>),
    HistoryOf(<<BuyOrder, LossOrder, BuyOrder, LossOrder, BuyOrder, LossOrder>>),
    HistoryOf(<<BuyOrder, LossOrder, BuyOrder, LossOrder, BuyOrder, LateLossOrder>>),
    HistoryOf(<<WinOrder, WinOrder>>) }

LoadHistory(h, ps) ==
  /\ trades # h \/ positions # ps
  /\ trades' = h
  /\ positions' = ps
  /\ DropResults
  /\ UNCHANGED <<now, earlier, account>>

Tick ==
  /\ now < MaxClock
  /\ now' = now + 1
  /\ UNCHANGED <<trades, positions, detections, analysis, report, earlier, account>>

\* The caller keeps the result of the call just made.
Remember ==
  /\ analysis # NoAnalysis
  /\ earlier = NoCall
  /\ earlier' = [made |-> TRUE, trades |-> trades, positions |-> positions,
                 detections |-> detections, analysis |-> analysis,
                 interleaved |-> FALSE]
  /\ UNCHANGED <<trades, positions, now, detections, analysis, report, account>>

NextRepeated ==
  \/ \E h \in Histories : \E ps \in {<<>>, << Position(Str.V, 4, 50) >>} : LoadHistory(h, ps)
  \/ Tick
  \/ Report
  \/ Remember

SpecRepeated == Init /\ [][NextRepeated]_vars

(***************************************************************************)
(* Particular histories: trades that share a timestamp, trades at the      *)
(* thresholds of the detectors, and the same trades handed over in         *)
(* another order.                                                          *)
(***************************************************************************)
\* A buy of the given quantity at $10, gap minutes after the previous order.
BuyOf(quantity, gap) == [BuyOrder EXCEPT !.quantity = quantity, !.gap = gap]

\* A sale of 10 units at $10 that realizes pnl, gap minutes after the
\* previous order.
SaleOf(pnl, gap) == [LossOrder EXCEPT !.pnl = pnl, !.gap = gap]

\* A $60 loss, then 40 minutes later two buys at the same instant, the
\* first of 1.4 times the value of the losing trade, the second of 1.0 times.
TiedHistory == HistoryOf(<<SaleOf(-60, 0), BuyOf(14, 40), BuyOf(10, 0)>>)

\* Two $60 losses, each followed 10 minutes later by a buy of exactly 1.3
\* times the value of the losing trade.
RapidThirtyPercentHistory ==
  HistoryOf(<<SaleOf(-60, 0), BuyOf(13, 10), SaleOf(-60, 40), BuyOf(13, 10)>>)

\* A $60 loss, 40 minutes later a buy of exactly 1.3 times its value, and
\* an hour later a buy of the same value again.
SlowThirtyPercentHistory == HistoryOf(<<SaleOf(-60, 0), BuyOf(13, 40), BuyOf(13, 60)>>)

\* Ten sales an hour apart: five wins of $1, $1, $2, $2, $2 and five losses
\* of $2, $2, $2, $3, $3, in turn.  The average win is $1.60 and the
\* average loss $2.40, 1.5 times as much.
BoundaryRatioHistory ==
  HistoryOf(<<SaleOf(1, 60), SaleOf(-2, 60), SaleOf(1, 60), SaleOf(-2, 60), SaleOf(2, 60),
              SaleOf(-2, 60), SaleOf(2, 60), SaleOf(-3, 60), SaleOf(2, 60), SaleOf(-3, 60)>>)

\* Ten sales an hour apart: five losses of $100, a win of $40, a sixth loss
\* of $100 and three more wins of $40.
SixLossesFourWinsHistory ==
  HistoryOf(<<SaleOf(-100, 60), SaleOf(-100, 60), SaleOf(-100, 60), SaleOf(-100, 60),
              SaleOf(-100, 60), SaleOf(40, 60), SaleOf(-100, 60), SaleOf(40, 60),
              SaleOf(40, 60), SaleOf(40, 60)>>)

\* Single sales of large volume: $36500 with $3 of fees and a gain of $97
\* (annualized drag exactly 3%), and $40000 with fees and pnl of $1 and -$1
\* (gross P&L 0), $3 and $7 (ratio exactly 30%), $1 and $9 (ratio 10%).
\* Round trips in AAPL: two buys each sold at a loss of $60 an hour later;
\* and a buy sold exactly 7 days later, then a buy sold a minute short of 7
\* days later.  Runs of losses of $60 an hour apart on growing quantities:
\* 10, 20 (twice the value), a win, 21; 8, 10 (25% more), 15 (50% more), a
\* buy; 10, 14, 19, 40 (more than twice); 10, 14, 19 and a buy.  Five sales
\* free of fees two days apart, winning $40 and losing $30 in turn.
CaseHistories ==
  LET SaleOfBought(pnl, gap) == [SaleOf(pnl, gap) EXCEPT !.symbol = Str.AAPL]
      LossOn(quantity) == [SaleOf(-60, 60) EXCEPT !.quantity = quantity]
  IN
  { TiedHistory, RapidThirtyPercentHistory, SlowThirtyPercentHistory,
    BoundaryRatioHistory, SixLossesFourWinsHistory,
    HistoryOf(<< BuyOf(10, 0), SaleOfBought(-60, 60), BuyOf(10, 60), SaleOfBought(-60, 60) >>),
    HistoryOf(<< LossOn(10), LossOn(20), SaleOf(40, 60), LossOn(21) >>),
    HistoryOf(<< LossOn(8), LossOn(10), LossOn(15), BuyOf(10, 60) >>),
    HistoryOf(<< LossOn(10), LossOn(14), LossOn(19), LossOn(40) >>),
    HistoryOf(<< LossOn(10), LossOn(14), LossOn(19), BuyOf(10, 60) >>),
    HistoryOf(<< [SaleOf(40, 0) EXCEPT !.fees = 0],
                 [SaleOf(-30, 2 * MinutesPerDay) EXCEPT !.fees = 0],
                 [SaleOf(40, 2 * MinutesPerDay) EXCEPT !.fees = 0],
                 [SaleOf(-30, 2 * MinutesPerDay) EXCEPT !.fees = 0],
                 [SaleOf(40, 2 * MinutesPerDay) EXCEPT !.fees = 0] >>),
    HistoryOf(<< BuyOf(10, 0), SaleOfBought(5, 7 * MinutesPerDay),
                 BuyOf(10, 60), SaleOfBought(5, 7 * MinutesPerDay - 1) >>),
    HistoryOf(<< [SaleOf(97, 0) EXCEPT !.quantity = 3650, !.fees = 3] >>),
    HistoryOf(<< [SaleOf(-1, 0) EXCEPT !.quantity = 4000, !.fees = 1] >>),
    HistoryOf(<< [SaleOf(7, 0) EXCEPT !.quantity = 4000, !.fees = 3] >>),
    HistoryOf(<< [SaleOf(9, 0) EXCEPT !.quantity = 4000, !.fees = 1] >>) }

\* A holding so small that quantity * price is 0 in doubles (5e-324 units
\* at a price of 0.08); in whole units and whole dollars both are 0.
DustPosition == [symbol |-> Str.V, quantity |-> 0, current_price |-> 0, current_value |-> 0]

\* One holding, a holding of no value, two holdings of $100 each, and
\* three holdings of $100, $400 and $900.
CasePositionSets ==
  { <<>>,
    << Position(Str.V, 4, 50) >>,
    << DustPosition >>,
    << Position(Str.MSFT, 1, 100), Position(Str.AAPL, 1, 100) >>,
    << Position(Str.MSFT, 1, 100), Position(Str.AAPL, 4, 100), Position(Str.V, 9, 100) >> }

\* The same trades with the two newest exchanged in the array.
SwapFirstTwo(held) == <<held[2], held[1]>> \o SubSeq(held, 3, Len(held))

\* A caller hands the engine the trades it holds in another order.
Reorder ==
  /\ Len(trades) >= 2
  /\ trades' = SwapFirstTwo(trades)
  /\ DropResults
  /\ UNCHANGED <<positions, now, earlier, account>>

\* A caller loads a portfolio and asks for reports on it; once it keeps a
\* result it goes on with the same trades, in any order.
NextCases ==
  \/ \E h \in CaseHistories : \E ps \in CasePositionSets :
        earlier = NoCall /\ LoadHistory(h, ps)
  \/ Reorder
  \/ Report
  \/ Remember

SpecCases == Init /\ [][NextCases]_vars

(***************************************************************************)
(* The portfolio store: orders executed against the cash and the           *)
(* positions, at the readings of a millisecond clock.                      *)
(***************************************************************************)
MaxStoreTrades == 3

StoreSymbols == {Str.AAPL, Str.V}

StoreQuantities == {1, 2}

StorePrices == {10, 12}

StoreFees == {1}

executeBuy(symbol, quantity, price, fees, assetType) ==
  LET totalCost == quantity * price + fees
      newCashBalance == cashBalance - totalCost
      newPositions == BoughtPosition(positions, symbol, quantity, price, assetType)
      newTrade == StoreTrade(now, trades, symbol, "BUY", quantity, price, fees, assetType,
                             FALSE, FracOf(0))
      call == [handler |-> "executeBuy", symbol |-> symbol, quantity |-> quantity,
               price |-> price, fees |-> fees]
  IN  /\ Len(trades) < MaxStoreTrades
      /\ IF totalCost > cashBalance
         THEN /\ returned' = [call |-> call, value |-> "false"]
              /\ UNCHANGED <<cashBalance, positions, trades, totals>>
         ELSE /\ cashBalance' = newCashBalance
              /\ positions' = newPositions
              /\ trades' = <<newTrade>> \o trades
              /\ totals' = Totals(newPositions, newCashBalance)
              /\ returned' = [call |-> call, value |-> "true"]
      /\ UNCHANGED <<now, detections, analysis, report, earlier, growth>>

executeSell(symbol, quantity, price, fees) ==
  LET positionIndex == FindPositionIndex(positions, symbol)
      call == [handler |-> "executeSell", symbol |-> symbol, quantity |-> quantity,
               price |-> price, fees |-> fees]
  IN  /\ Len(trades) < MaxStoreTrades
      /\ IF positionIndex <= 0
         THEN /\ returned' = [call |-> call, value |-> "false"]
              /\ UNCHANGED <<cashBalance, positions, trades, totals>>
         ELSE IF quantity > positions[positionIndex].quantity
         THEN /\ returned' = [call |-> call, value |-> "false"]
              /\ UNCHANGED <<cashBalance, positions, trades, totals>>
         ELSE
         LET position == positions[positionIndex]
             proceeds == quantity * price - fees
             newCashBalance == cashBalance + proceeds
             newPositions == SoldPosition(positions, positionIndex, quantity, price)
             realizedPnl == FracSub(FracMul(FracSub(FracOf(price), position.avg_cost),
                                            FracOf(quantity)),
                                    FracOf(fees))
             newTrade == StoreTrade(now, trades, symbol, "SELL", quantity, price, fees,
                                    position.asset_type, TRUE, realizedPnl)
         IN  /\ cashBalance' = newCashBalance
             /\ positions' = newPositions
             /\ trades' = <<newTrade>> \o trades
             /\ totals' = Totals(newPositions, newCashBalance)
             /\ returned' = [call |-> call, value |-> "true"]
      /\ UNCHANGED <<now, detections, analysis, report, earlier, growth>>

\* The positions updatePrices leaves: prices[symbol] || current_price, where
\* a symbol without a quote has price 0.
Repriced(held, prices) ==
  Map(held, LAMBDA position :
    LET newPrice == IF prices[position.symbol] # 0 THEN prices[position.symbol]
                    ELSE position.current_price
        currentValue == position.quantity * newPrice
        costBasis == FracMul(position.avg_cost, FracOf(position.quantity))
        pnl == FracSub(FracOf(currentValue), costBasis)
    IN  [position EXCEPT !.current_price = newPrice,
                         !.current_value = currentValue,
                         !.pnl = pnl,
                         !.pnl_percent = FracPercent(pnl, costBasis)])

updatePrices(prices) ==
  /\ positions' = Repriced(positions, prices)
  /\ totals' = Totals(positions', cashBalance)
  /\ returned' = [call |-> [handler |-> "updatePrices"], value |-> "undefined"]
  /\ UNCHANGED <<trades, now, detections, analysis, report, earlier, cashBalance, growth>>

resetPortfolio ==
  /\ cashBalance' = INITIAL_CASH
  /\ positions' = <<>>
  /\ trades' = <<>>
  /\ totals' = Totals(<<>>, INITIAL_CASH)
  /\ returned' = [call |-> [handler |-> "resetPortfolio"], value |-> "undefined"]
  /\ UNCHANGED <<now, detections, analysis, report, earlier, growth>>

\* The trading page calls the handlers with the orders it has validated
\* itself: a buy the cash pays for, a sale of no more than is held.
NextStore ==
  \/ \E symbol \in StoreSymbols, quantity \in StoreQuantities, price \in StorePrices,
        fees \in StoreFees :
        /\ quantity * price + fees <= cashBalance
        /\ executeBuy(symbol, quantity, price, fees, "stocks")
  \/ \E symbol \in StoreSymbols, quantity \in StoreQuantities, price \in StorePrices,
        fees \in StoreFees :
        /\ \E i \in 1..Len(positions) :
             positions[i].symbol = symbol /\ quantity <= positions[i].quantity
        /\ executeSell(symbol, quantity, price, fees)
  \/ Tick

SpecStore == Init /\ [][NextStore]_vars

\* The handlers called with any order, with the quotes of a price tick and
\* from the settings page; one order takes all the cash of a new account.
NextOrders ==
  \/ \E symbol \in StoreSymbols, quantity \in StoreQuantities, price \in StorePrices,
        fees \in StoreFees : executeBuy(symbol, quantity, price, fees, "stocks")
  \/ \E symbol \in StoreSymbols : executeBuy(symbol, 1, INITIAL_CASH, 0, "stocks")
  \/ \E symbol \in StoreSymbols, quantity \in StoreQuantities, price \in StorePrices,
        fees \in StoreFees : executeSell(symbol, quantity, price, fees)
  \/ \E prices \in [StoreSymbols -> StorePrices \cup {0}] : updatePrices(prices)
  \/ resetPortfolio

SpecOrders == Init /\ [][NextOrders]_vars

(***************************************************************************)
(* The growth store: reports evaluated day after day.                      *)
(***************************************************************************)
MaxDays == 2

MaxXp == 120

\* The growth beyond which the tree is not grown further, in hundredths.
MaxProgress == 2400

\* What the persist middleware finds in localStorage after a long session:
\* the developer tools' best report evaluated again and again on one day,
\* the water system upgraded to level 4 as soon as xp allowed, until xp
\* pays for level 5.
PersistedSession ==
  LET Round(state) ==
        LET evaluated == EvaluatedFrom([state EXCEPT !.lastEvaluatedDate = null],
                                       makeMockReport(100, 0, 0), 0)
        IN  IF evaluated.tree.waterLevel < 4
            THEN UpgradedSystem(evaluated, "waterLevel") ELSE evaluated
      RECURSIVE Played(_)
      Played(state) == IF state.xp >= 1000 THEN state ELSE Played(Round(state))
  IN  Played(InitialGrowth)

\* The store is created in a browser that holds the snapshot.
Rehydrate ==
  /\ growth = InitialGrowth
  /\ growth' = PersistedSession
  /\ UNCHANGED <<trades, positions, now, detections, analysis, report, earlier,
                 cashBalance, totals, returned>>

\* The report of the growth page's developer tools.
MockReports(clock) ==
  { makeMockReport(100, 0, clock) }

\* A history of losses, each followed by a larger buy: with one position
\* its report has three critical biases.
GrowthHistory == HistoryOf(<<LossOrder, BuyOrder, LossOrder, BuyOrder, LossOrder>>)

\* The growth page is opened on a portfolio that has traded: useBehaviorReport
\* computes the report the page holds from then on.
OpenGrowthPage ==
  /\ report = NoReport
  /\ growth = InitialGrowth
  /\ trades' = GrowthHistory
  /\ positions' = << Position(Str.V, 4, 50) >>
  /\ detections' = RunDetectors(trades', positions')
  /\ analysis' = Aggregate(detections', trades', now)
  /\ report' = computeBehaviorReport(analysis', now)
  /\ UNCHANGED <<now, earlier, account>>

\* The effect of the growth page hands over the report it holds (if
\* (!report) return), the developer tools one of theirs.
evaluateFromReport(r) ==
  /\ r # NoReport
  /\ growth.xp < MaxXp
  /\ growth' = EvaluatedFrom(growth, r, now)
  /\ UNCHANGED <<trades, positions, now, detections, analysis, report, earlier,
                 cashBalance, totals, returned>>

upgradeSystem(type) ==
  /\ growth' = UpgradedSystem(growth, IF type = "water" THEN "waterLevel"
                                      ELSE IF type = "sun" THEN "sunLevel" ELSE "soilLevel")
  /\ UNCHANGED <<trades, positions, now, detections, analysis, report, earlier,
                 cashBalance, totals, returned>>

applyDailyGrowth ==
  /\ growth.tree.growthProgress < MaxProgress
  /\ growth' = DailyGrowthApplied(growth, now)
  /\ UNCHANGED <<trades, positions, now, detections, analysis, report, earlier,
                 cashBalance, totals, returned>>

simulateDay ==
  /\ growth.tree.growthProgress < MaxProgress
  /\ growth' = GrownBy(growth, 24, now)
  /\ UNCHANGED <<trades, positions, now, detections, analysis, report, earlier,
                 cashBalance, totals, returned>>

forceReevaluate ==
  /\ growth' = [growth EXCEPT !.lastEvaluatedDate = null]
  /\ UNCHANGED <<trades, positions, now, detections, analysis, report, earlier,
                 cashBalance, totals, returned>>

resetAll ==
  /\ growth' = InitialGrowth
  /\ UNCHANGED <<trades, positions, now, detections, analysis, report, earlier,
                 cashBalance, totals, returned>>

\* The clock passes midnight.
Midnight ==
  /\ getTodayKey(now) < MaxDays
  /\ now' = (getTodayKey(now) + 1) * MinutesPerDay
  /\ UNCHANGED <<trades, positions, detections, analysis, report, earlier, account>>

NextGrowth ==
  \/ OpenGrowthPage
  \/ Rehydrate
  \/ \E r \in {report} \cup MockReports(now) : evaluateFromReport(r)
  \/ applyDailyGrowth
  \/ simulateDay
  \/ \E type \in {"water", "sun", "soil"} : upgradeSystem(type)
  \/ forceReevaluate
  \/ resetAll
  \/ Midnight

SpecGrowth == Init /\ [][NextGrowth]_vars

(***************************************************************************)
(* Properties.                                                             *)
(***************************************************************************)
Called == analysis # NoAnalysis

Indices(s) == 1..Len(s)

\* An analysis with the clock readings blanked.
Undated(a) ==
  [biases |-> Map(a.biases, LAMBDA b : [b EXCEPT !.detected_at = 0]),
   disciplineScore |-> a.disciplineScore,
   summary |-> a.summary]

SameArraysAsEarlier ==
  earlier # NoCall /\ Called /\ earlier.trades = trades /\ earlier.positions = positions

\* C1: two calls of analyzeBiases on the same (trades, positions), whatever
\* was analysed in between and whenever they are made, return the same ids,
\* scores, severities, ordering, disciplineScore and summary; only
\* detected_at may differ.
C1_SameInputSameResult ==
  SameArraysAsEarlier => Undated(analysis) = Undated(earlier.analysis)

C1_Witness ==
  /\ SameArraysAsEarlier
  /\ earlier.interleaved
  /\ Len(trades) >= 5
  /\ Len(analysis.biases) >= 7
  /\ analysis.biases[1].detected_at # earlier.analysis.biases[1].detected_at

\* C2: every score in the result of analyzeBiases lies in 0..100 and
\* disciplineScore is an integer in 0..100.
C2_ScoresInRange ==
  Called =>
    /\ \A i \in Indices(analysis.biases) : analysis.biases[i].score \in 0..100
    /\ analysis.disciplineScore \in 0..100

C2_Witness ==
  /\ Called
  /\ \E i \in Indices(analysis.biases) : analysis.biases[i].score >= 90
  /\ analysis.disciplineScore < 60

RawTotal == SumSeq(Map(detections, LAMBDA d : d.result.score))

\* C4: disciplineScore is 100 - RawTotal / 9 clamped to [0, 100] and rounded
\* to the nearest integer (half up), the mean being taken over all nine
\* detectors; it is 100 when all nine score 0.
C4_DisciplineScoreIsRoundedMean ==
  Called =>
    LET twiceClamped == 2 * Max(0, Min(900, 900 - RawTotal))
        d == analysis.disciplineScore
    IN  /\ Len(detections) = 9
        /\ 18 * d - 9 <= twiceClamped
        /\ twiceClamped < 18 * d + 9
        /\ (RawTotal = 0 => d = 100)

C4_Witness ==
  /\ Called
  /\ Len(analysis.biases) \in 1..8
  /\ (900 - RawTotal) % 9 >= 5

\* a sorts before b, or they are the same record.
InOrder(a, b) ==
  a.score > b.score \/ (a.score = b.score /\ localeCompare(a.id, b.id) <= 0)

\* C5: the biases list is ordered by score descending, ties by id ascending;
\* its first element carries the maximum score of all detectors; sorting it
\* again in computeBehaviorReport leaves it unchanged.
C5_SortedByScoreThenId ==
  Called =>
    /\ \A i \in 1..(Len(analysis.biases) - 1) :
         InOrder(analysis.biases[i], analysis.biases[i + 1])
    /\ analysis.biases # <<>> =>
         \A j \in Indices(detections) : detections[j].result.score <= analysis.biases[1].score
    /\ report.biases = analysis.biases

C5_Witness ==
  /\ Called
  /\ \E i \in 1..(Len(analysis.biases) - 1) :
       /\ analysis.biases[i].score = analysis.biases[i + 1].score
       /\ \E j, k \in Indices(detections) :
            /\ j < k
            /\ detections[j].type = analysis.biases[i + 1].bias_type
            /\ detections[k].type = analysis.biases[i].bias_type
  /\ \E i \in 1..(Len(analysis.biases) - 1) :
       analysis.biases[i].score > analysis.biases[i + 1].score

\* C6: the list holds exactly one record per detector with raw score > 0 and
\* none for a detector that scored 0; at most nine; totalBiases is its length.
C6_OneRecordPerDetectedBias ==
  Called =>
    /\ \A j \in Indices(detections) :
         Cardinality({i \in Indices(analysis.biases) :
                        analysis.biases[i].bias_type = detections[j].type})
           = IF detections[j].result.score > 0 THEN 1 ELSE 0
    /\ \A i \in Indices(analysis.biases) :
         \E j \in Indices(detections) : detections[j].type = analysis.biases[i].bias_type
    /\ Len(analysis.biases) <= 9
    /\ analysis.summary.totalBiases = Len(analysis.biases)

C6_Witness ==
  /\ Called
  /\ \E j \in Indices(detections) : detections[j].result.score = 0
  /\ Len(analysis.biases) >= 4

\* C7: criticalBiases and highBiases count the returned biases of that
\* severity, and topConcern is the bias_type of the first element, or
\* 'none' exactly when the list is empty.
C7_SummaryCounts ==
  Called =>
    /\ analysis.summary.criticalBiases =
         Cardinality({i \in Indices(analysis.biases) : analysis.biases[i].severity = "critical"})
    /\ analysis.summary.highBiases =
         Cardinality({i \in Indices(analysis.biases) : analysis.biases[i].severity = "high"})
    /\ (analysis.biases = <<>>) <=> (analysis.summary.topConcern = "none")
    /\ analysis.biases # <<>> => analysis.summary.topConcern = analysis.biases[1].bias_type

C7_Witness ==
  /\ Called
  /\ analysis.summary.criticalBiases >= 2
  /\ analysis.summary.highBiases >= 1
  /\ analysis.summary.topConcern = "concentration_bias"

\* The minimum sample of a detector is not met by the current arrays.
BelowMinimum(type) ==
  CASE type = "overtrading" -> Len(trades) < 3
    [] type = "loss_aversion" -> Len(trades) < 5
    [] type = "revenge_trading" -> Len(trades) < 3
    [] type = "disposition_effect" -> Len(trades) < 5
    [] type = "risk_escalation" -> Len(trades) < 4
    [] type = "overconfidence" -> Len(trades) < 5
    [] type = "concentration_bias" -> Len(positions) = 0
    [] type = "fee_drag" -> Len(trades) = 0
    [] type = "churn" -> Len(trades) < 4

\* C8: a detector given fewer trades than its minimum sample (for
\* concentration: no positions) returns score 0, empty evidence and no
\* affected trades, and is absent from the output list.
C8_SampleSizeFloor ==
  Called =>
    \A j \in Indices(detections) :
      BelowMinimum(detections[j].type) =>
        /\ detections[j].result.score = 0
        /\ detections[j].result.evidence = <<>>
        /\ detections[j].result.affectedTrades = <<>>
        /\ \A i \in Indices(analysis.biases) :
             analysis.biases[i].bias_type # detections[j].type

C8_Witness ==
  /\ Called
  /\ Len(trades) = 4
  /\ positions = <<>>
  /\ Len(analysis.biases) = 5

\* The symbol context a bias id carries: <type>-<context>-<7 digit hash>.
ContextOf(b) == SubSeq(b.id, Len(Str[b.bias_type]) + 2, Len(b.id) - 8)

\* The same detector output in two calls, as far as the id may depend on it.
SameIdentity(b1, b2) ==
  /\ b1.bias_type = b2.bias_type
  /\ ContextOf(b1) = ContextOf(b2)
  /\ \A key \in {b1.metrics[i].key : i \in Indices(b1.metrics)}
              \cup {b2.metrics[i].key : i \in Indices(b2.metrics)} :
       GetProp(b1.metrics, key) = GetProp(b2.metrics, key)

\* C9: two analyses, of the same or of different trade histories and at any
\* times, that give a detector the same bias_type, symbol context and
\* evidence values give the detection the same id, whatever its score and
\* detected_at.
C9_IdFromTypeContextEvidence ==
  (earlier # NoCall /\ Called) =>
    \A i \in Indices(analysis.biases) : \A j \in Indices(earlier.analysis.biases) :
      SameIdentity(analysis.biases[i], earlier.analysis.biases[j])
        => analysis.biases[i].id = earlier.analysis.biases[j].id

C9_Witness ==
  /\ earlier # NoCall
  /\ Called
  /\ earlier.trades # trades
  /\ \E i \in Indices(analysis.biases) : \E j \in Indices(earlier.analysis.biases) :
       /\ SameIdentity(analysis.biases[i], earlier.analysis.biases[j])
       /\ analysis.biases[i].score # earlier.analysis.biases[j].score
       /\ analysis.biases[i].detected_at # earlier.analysis.biases[j].detected_at

\* The symbols of the affected trades of a bias, one per trade.
AffectedSymbols(b) ==
  Map(b.affected_trades,
      LAMBDA id : (CHOOSE t \in {trades[k] : k \in Indices(trades)} : t.id = id).symbol)

Occurrences(symbols, s) == Cardinality({k \in Indices(symbols) : symbols[k] = s})

\* s is the most frequent of the symbols, the alphabetically first of the
\* most frequent ones.
IsTopSymbol(symbols, s) ==
  /\ \E k \in Indices(symbols) : symbols[k] = s
  /\ \A k \in Indices(symbols) :
       \/ Occurrences(symbols, symbols[k]) < Occurrences(symbols, s)
       \/ /\ Occurrences(symbols, symbols[k]) = Occurrences(symbols, s)
          /\ localeCompare(s, symbols[k]) <= 0

\* C10: the symbol context of a detection is the evidence's top_symbol when
\* that is a non-empty string, else the most frequent symbol of the affected
\* trades (the alphabetically first on a tie), else 'GLOBAL' when there are
\* no affected trades.
C10_SymbolContext ==
  Called =>
    \A i \in Indices(analysis.biases) :
      LET b == analysis.biases[i]
          top == GetProp(b.metrics, Str.top_symbol)
      IN  IF top.t = "string" /\ top.s # <<>> THEN ContextOf(b) = top.s
          ELSE IF b.affected_trades = <<>> THEN ContextOf(b) = Str.GLOBAL
          ELSE IsTopSymbol(AffectedSymbols(b), ContextOf(b))

C10_Witness ==
  /\ Called
  /\ \E i \in Indices(analysis.biases) :
       LET b == analysis.biases[i]
           symbols == AffectedSymbols(b)
       IN  /\ Len(symbols) >= 2
           /\ symbols[1] # ContextOf(b)
           /\ Occurrences(symbols, symbols[1]) = Occurrences(symbols, ContextOf(b))
  /\ \E i \in Indices(analysis.biases) :
       GetProp(analysis.biases[i].metrics, Str.top_symbol).t = "string"
  /\ \E i \in Indices(analysis.biases) :
       ContextOf(analysis.biases[i]) = Str.GLOBAL

SameTradesInAnyOrder(a, b) ==
  /\ Len(a) = Len(b)
  /\ \A i \in Indices(a) : Count(a, LAMBDA t : t = a[i]) = Count(b, LAMBDA t : t = a[i])

\* The part of a result that C12 speaks of: every detector's score, the ids
\* and severities of the biases in their order, and disciplineScore.
OrderedOutcome(dets, a) ==
  [scores |-> Map(dets, LAMBDA d : d.result.score),
   biases |-> Map(a.biases, LAMBDA b : <<b.id, b.severity>>),
   disciplineScore |-> a.disciplineScore]

\* C12: two calls of analyzeBiases on the same trades in two different orders
\* (and the same positions) return the same detector scores, the same ids and
\* severities in the same order, and the same disciplineScore.
C12_OrderOfTradesIrrelevant ==
  ( /\ earlier.made
    /\ Called
    /\ SameTradesInAnyOrder(earlier.trades, trades)
    /\ earlier.positions = positions )
  => OrderedOutcome(detections, analysis) = OrderedOutcome(earlier.detections, earlier.analysis)

\* A number with a value: neither NaN nor an infinity.
IsFiniteValue(value) == value.t = "number" => value.s = <<>>

\* C13: every division in every detector is guarded: whatever denominator is
\* 0, no detector returns a score or an evidence value that is NaN or
\* infinite.
C13_EveryDivisionGuarded ==
  \A i \in Indices(detections) :
    /\ detections[i].result.score \in 0..100
    /\ \A j \in Indices(detections[i].result.evidence) :
         IsFiniteValue(detections[i].result.evidence[j].value)

\* C14: every id in affected_trades of every returned detection is the id
\* of a trade of the trades array the engine was given.
C14_AffectedTradesAreInputTrades ==
  Called =>
    \A i \in Indices(analysis.biases) :
      \A j \in Indices(analysis.biases[i].affected_trades) :
        \E k \in Indices(trades) : trades[k].id = analysis.biases[i].affected_trades[j]

\* Two detections at least name trades, one of them more than one trade.
C14_Witness ==
  /\ Called
  /\ Cardinality({i \in Indices(analysis.biases) : Len(analysis.biases[i].affected_trades) >= 1}) >= 2
  /\ \E i \in Indices(analysis.biases) : Len(analysis.biases[i].affected_trades) >= 2

\* No trade of the array has a positive pnl, or none has a negative pnl.
NoMixedResults ==
  \/ \A i \in Indices(trades) : Pnl(trades[i]) <= 0
  \/ \A i \in Indices(trades) : Pnl(trades[i]) >= 0

\* The detection of the given type returned the fixed score, no evidence,
\* no affected trades and a message, and is in the output with severity low.
IsFloorDetection(type, score) ==
  /\ \E i \in Indices(detections) :
       /\ detections[i].type = type
       /\ detections[i].result.score = score
       /\ detections[i].result.evidence = <<>>
       /\ detections[i].result.affectedTrades = <<>>
       /\ detections[i].result.intervention # ""
  /\ \E i \in Indices(analysis.biases) :
       /\ analysis.biases[i].bias_type = type
       /\ analysis.biases[i].score = score
       /\ analysis.biases[i].severity = "low"

\* C15: with at least 5 trades none of which has a positive pnl, or none of
\* which has a negative pnl, loss aversion returns the fixed score 15 and
\* the disposition effect the fixed score 10, each with empty evidence, no
\* affected trades and a message; both are in the output with severity low.
C15_NoMixedResultsFloor ==
  (Called /\ Len(trades) >= 5 /\ NoMixedResults)
  => (IsFloorDetection("loss_aversion", 15) /\ IsFloorDetection("disposition_effect", 10))

\* A call on five trades of which some lost and none won.
C15_Witness ==
  /\ Called
  /\ Len(trades) >= 5
  /\ \A i \in Indices(trades) : Pnl(trades[i]) <= 0
  /\ \E i \in Indices(trades) : Pnl(trades[i]) < 0

(***************************************************************************)
(* The portfolio store.                                                    *)
(***************************************************************************)
\* C16: after any sequence of successful executeBuy and executeSell calls,
\* issued at any times, no two trades of the store share an id.
C16_TradeIdsUnique ==
  \A i, j \in Indices(trades) : i # j => trades[i].id # trades[j].id

(***************************************************************************)
(* The growth store.                                                       *)
(***************************************************************************)
\* What a report counts for: xp, the streak counters, the milestones, the
\* achievements and the previous-score fields.
Counted(state) ==
  [xp |-> state.xp, streakDays |-> state.streakDays,
   discipline70StreakDays |-> state.discipline70StreakDays,
   discipline80StreakDays |-> state.discipline80StreakDays,
   cleanDayStreakDays |-> state.cleanDayStreakDays,
   milestonesUnlocked |-> state.milestonesUnlocked,
   achievements |-> state.achievements,
   previousDisciplineScore |-> state.previousDisciplineScore,
   previousHighSeverityCount |-> state.previousHighSeverityCount]

\* C17: once a report has been applied on a day (lastEvaluatedDate is that
\* day), no call of evaluateFromReport on that day changes xp, a streak
\* counter, the milestones, the achievements or a previous-score field: a
\* step taken while lastEvaluatedDate is today changes them only if it is
\* forceReevaluate or resetAll, which set lastEvaluatedDate to null, or an
\* upgrade of the tree.
C17_OncePerDay ==
  [][(growth.lastEvaluatedDate = getTodayKey(now) /\ growth'.tree = growth.tree /\ now' = now)
       => (Counted(growth') = Counted(growth) \/ growth'.lastEvaluatedDate = null)]_vars

\* A report was applied today and counted; the page holds another report,
\* which would count differently, and the store would take one more.
C17_Witness ==
  /\ growth.lastEvaluatedDate = getTodayKey(now)
  /\ growth.xp > 0
  /\ growth.xp < MaxXp
  /\ report # NoReport
  /\ report.disciplineScore # growth.previousDisciplineScore

(***************************************************************************)
(* The scoring tables of revenge trading and loss aversion.                *)
(***************************************************************************)
\* The result of the detector of the given type in the last call.
ResultOf(type) ==
  detections[CHOOSE i \in Indices(detections) : detections[i].type = type].result

\* The trades of the last call in the order the detectors scan them.
Scanned == SortByTimestamp(trades)

\* The earlier trade of the pair lost more than $50 or more than 2% of its
\* total_value.
LostEnough(pair) ==
  \/ Pnl(pair[1]) < -50
  \/ Pnl(pair[1]) < 0 /\ (0 - Pnl(pair[1])) * 100 > 2 * pair[1].total_value

FollowsWithin30Minutes(pair) == pair[2].timestamp - pair[1].timestamp < 30

MoreThan30PercentLarger(pair) == 10 * pair[2].total_value > 13 * pair[1].total_value

Exactly30PercentLarger(pair) == 10 * pair[2].total_value = 13 * pair[1].total_value

\* The adjacent pairs of the scan, by the position of the earlier trade.
PairAt(i) == <<Scanned[i], Scanned[i + 1]>>

RevengePairs ==
  { i \in 1..(Len(Scanned) - 1) :
      /\ LostEnough(PairAt(i))
      /\ FollowsWithin30Minutes(PairAt(i)) \/ MoreThan30PercentLarger(PairAt(i)) }

FullPatternPairs ==
  { i \in RevengePairs :
      FollowsWithin30Minutes(PairAt(i)) /\ MoreThan30PercentLarger(PairAt(i)) }

RevengeScoreOfTable ==
  IF Cardinality(FullPatternPairs) >= 2 THEN 90
  ELSE IF Cardinality(RevengePairs) >= 3 THEN 75
  ELSE IF Cardinality(RevengePairs) = 2 THEN 55
  ELSE IF Cardinality(RevengePairs) = 1 THEN 35
  ELSE 10

\* C18: on at least 3 trades the revenge-trading detector counts one
\* instance for each adjacent pair whose earlier trade lost more than $50 or
\* more than 2% of its value and whose later trade follows in under 30
\* minutes or is more than 30% larger, a full pattern when both hold, and
\* scores 90 with at least 2 full patterns, else 75 with at least 3
\* instances, 55 with 2, 35 with 1 and 10 with none.
C18_RevengeScoring ==
  (Called /\ Len(trades) >= 3)
  => /\ Len(ResultOf("revenge_trading").affectedTrades) = Cardinality(RevengePairs)
     /\ ResultOf("revenge_trading").score = RevengeScoreOfTable

\* The later trade of the pair was counted as a revenge instance.
CountedAsRevenge(pair) ==
  \E k \in Indices(ResultOf("revenge_trading").affectedTrades) :
    ResultOf("revenge_trading").affectedTrades[k] = pair[2].id

\* The adjacent pairs whose earlier trade lost enough and whose later trade
\* comes 30 minutes or more later with exactly 1.3 times the total_value.
LateThirtyPercentPairs ==
  { i \in 1..(Len(Scanned) - 1) :
      /\ LostEnough(PairAt(i))
      /\ ~FollowsWithin30Minutes(PairAt(i))
      /\ Exactly30PercentLarger(PairAt(i)) }

\* C19 as stated: the size-escalation test is '>= 30% larger', so that
\* after a qualifying loss a next trade of exactly 1.3 times the total_value
\* that comes 30 minutes or more later counts as a revenge instance.
C19_ThirtyPercentCounts ==
  (Called /\ Len(trades) >= 3)
  => \A i \in LateThirtyPercentPairs : CountedAsRevenge(PairAt(i))

\* C19 amended: the size-escalation test is strict (sizeRatio > 1.3), so
\* that after a qualifying loss a next trade of exactly 1.3 times the
\* total_value that comes 30 minutes or more later does not count as a
\* revenge instance.
C19_ThirtyPercentDoesNotCount ==
  (Called /\ Len(trades) >= 3)
  => \A i \in LateThirtyPercentPairs : ~CountedAsRevenge(PairAt(i))

\* A call on trades with such a pair.
C19_Witness ==
  /\ Called
  /\ Len(trades) >= 3
  /\ LateThirtyPercentPairs # {}

\* The trades of the last call that won, and those that lost.
Winners == { i \in Indices(trades) : Pnl(trades[i]) > 0 }
Losers == { i \in Indices(trades) : Pnl(trades[i]) < 0 }

\* The sum of the pnl of the trades at the given positions.
RECURSIVE PnlOver(_)
PnlOver(S) ==
  IF S = {} THEN 0
  ELSE LET i == CHOOSE j \in S : TRUE IN Pnl(trades[i]) + PnlOver(S \ {i})

\* average loss / average win >= a / b, both averages being positive.
AverageRatioAtLeast(a, b) ==
  (0 - PnlOver(Losers)) * Cardinality(Winners) * b >= a * PnlOver(Winners) * Cardinality(Losers)

\* average loss / average win > 1.
AverageLossAboveAverageWin ==
  (0 - PnlOver(Losers)) * Cardinality(Winners) > PnlOver(Winners) * Cardinality(Losers)

\* The largest loss and the largest win.
LargestLoss == CHOOSE x \in { 0 - Pnl(trades[i]) : i \in Losers } : \A i \in Losers : 0 - Pnl(trades[i]) <= x
LargestWin == CHOOSE x \in { Pnl(trades[i]) : i \in Winners } : \A i \in Winners : Pnl(trades[i]) <= x

\* Some k trades in a row of the scan all lost.
LosingRunOf(k) ==
  \E i \in 1..(Len(Scanned) - k + 1) : \A j \in i..(i + k - 1) : Pnl(Scanned[j]) < 0

BandA ==
  IF AverageRatioAtLeast(2, 1) THEN 40
  ELSE IF AverageRatioAtLeast(3, 2) THEN 30
  ELSE IF AverageRatioAtLeast(6, 5) THEN 20
  ELSE 10

\* Fewer than pct percent of the trades won.
WinRateBelow(pct) == 100 * Cardinality(Winners) < pct * Len(trades)

BandB ==
  IF WinRateBelow(50) /\ AverageLossAboveAverageWin THEN 25
  ELSE IF WinRateBelow(40) THEN 20
  ELSE IF WinRateBelow(50) THEN 10
  ELSE 0

BandC ==
  IF LargestLoss >= 3 * LargestWin THEN 25
  ELSE IF LargestLoss >= 2 * LargestWin THEN 15
  ELSE IF 2 * LargestLoss >= 3 * LargestWin THEN 10
  ELSE 0

BandD == IF LosingRunOf(5) THEN 10 ELSE 0

LossAversionScoreOfTable ==
  IF BandA + BandB + BandC + BandD > 100 THEN 100 ELSE BandA + BandB + BandC + BandD

\* C20: on at least 5 trades with a winner and a loser the loss-aversion
\* score is min(100, A + B + C + D): A is 40, 30, 20 or 10 for an average
\* loss of at least 2.0, 1.5, 1.2 times the average win or less; B is 25
\* when fewer than half of the trades won and the ratio is above 1, else 20
\* when fewer than 40% won, else 10 when fewer than half won, else 0; C is
\* 25, 15, 10 or 0 for a largest loss of at least 3, 2, 1.5 times the
\* largest win or less; D is 10 when 5 trades in a row of the scan lost.
C20_LossAversionBands ==
  (Called /\ Len(trades) >= 5 /\ Winners # {} /\ Losers # {})
  => ResultOf("loss_aversion").score = LossAversionScoreOfTable

(***************************************************************************)
(* The scoring tables of concentration, fee drag, churn and risk           *)
(* escalation.                                                             *)
(***************************************************************************)
\* The sum of current_value over the positions of the last call, and the
\* sum of its squares: HHI is SquaresOfValues / ValueOfPositions^2.
RECURSIVE ValueOver(_)
ValueOver(held) ==
  IF held = <<>> THEN 0 ELSE held[1].current_value + ValueOver(Tail(held))

RECURSIVE SquaresOver(_)
SquaresOver(held) ==
  IF held = <<>> THEN 0
  ELSE held[1].current_value * held[1].current_value + SquaresOver(Tail(held))

\* HHI > a / b
HHIAbove(a, b) ==
  b * SquaresOver(positions) > a * ValueOver(positions) * ValueOver(positions)

ConcentrationScoreOfTable ==
  IF HHIAbove(1, 2) THEN 95
  ELSE IF HHIAbove(1, 4) THEN 70
  ELSE IF HHIAbove(15, 100) THEN 45
  ELSE 15

\* C21: with a non-empty positions array the concentration score is 95
\* when HHI, the sum of the squared shares of current_value, is above 0.50,
\* 70 when it is above 0.25, 45 when it is above 0.15 and 15 otherwise, every
\* comparison strict, whatever the trades are.
C21_ConcentrationBands ==
  (Called /\ positions # <<>>)
  => ResultOf("concentration_bias").score = ConcentrationScoreOfTable

\* The fees, the pnl and the total_value of the given trades, summed.
RECURSIVE FeesOver(_)
FeesOver(held) == IF held = <<>> THEN 0 ELSE held[1].fees + FeesOver(Tail(held))

RECURSIVE NetOver(_)
NetOver(held) == IF held = <<>> THEN 0 ELSE Pnl(held[1]) + NetOver(Tail(held))

RECURSIVE VolumeOver(_)
VolumeOver(held) == IF held = <<>> THEN 0 ELSE held[1].total_value + VolumeOver(Tail(held))

GrossPnl == NetOver(trades) + FeesOver(trades)

AbsGrossPnl == IF GrossPnl < 0 THEN 0 - GrossPnl ELSE GrossPnl

TradingDays == Cardinality({ trades[i].timestamp \div MinutesPerDay : i \in Indices(trades) })

\* total fees / |gross P&L| x 100 > pct, the ratio being 0 when gross P&L is 0.
FeeRatioAbove(pct) == GrossPnl # 0 /\ 100 * FeesOver(trades) > pct * AbsGrossPnl

\* fees / volume x 365 / trading days x 100 > a / b
AnnualizedAbove(a, b) ==
  b * FeesOver(trades) * 365 * 100 > a * VolumeOver(trades) * TradingDays

FeeDragScoreOfTable ==
  IF FeeRatioAbove(30) \/ AnnualizedAbove(5, 1) THEN 90
  ELSE IF FeeRatioAbove(15) \/ AnnualizedAbove(3, 1) THEN 70
  ELSE IF FeeRatioAbove(5) \/ AnnualizedAbove(3, 2) THEN 45
  ELSE 15

ScannedOf(symbol) == SortByTimestamp(SelectSeq(trades, LAMBDA t : t.symbol = symbol))

\* The churn instances: a BUY and the SELL that follows it among the trades
\* of its symbol, less than 7 days apart.
ChurnPairs ==
  { pair \in UNION { { <<ScannedOf(symbol)[i], ScannedOf(symbol)[i + 1]>> :
                         i \in 1..(Len(ScannedOf(symbol)) - 1) } :
                     symbol \in { trades[k].symbol : k \in Indices(trades) } } :
      /\ pair[1].action = "BUY"
      /\ pair[2].action = "SELL"
      /\ pair[2].timestamp - pair[1].timestamp < 7 * MinutesPerDay }

\* The pnl of an instance: that of the sale, or, when it has none, the
\* difference of the two prices on the bought quantity.
RECURSIVE ChurnPnlOver(_)
ChurnPnlOver(S) ==
  IF S = {} THEN 0
  ELSE LET pair == CHOOSE q \in S : TRUE
       IN  (IF Pnl(pair[2]) # 0 THEN Pnl(pair[2])
            ELSE (pair[2].price - pair[1].price) * pair[1].quantity)
           + ChurnPnlOver(S \ {pair})

\* churn instances / total trades x 100 > pct
ChurnRateAbove(pct) == 100 * Cardinality(ChurnPairs) > pct * Len(trades)

ChurnScoreOfTable ==
  IF ChurnRateAbove(40) /\ ChurnPnlOver(ChurnPairs) < 0 THEN 80
  ELSE IF ChurnRateAbove(30) THEN 60
  ELSE IF ChurnRateAbove(20) THEN 40
  ELSE IF ChurnRateAbove(10) THEN 25
  ELSE 10

\* C23: on at least 4 trades the churn detector counts one instance for
\* each BUY followed, among the trades of its symbol in timestamp order, by
\* a SELL less than 7 days later, and scores 80 when the instances are more
\* than 40% of the trades and their average pnl is negative, else 60 when
\* they are more than 30%, 40 when more than 20%, 25 when more than 10%,
\* else 10.
C23_ChurnBands ==
  (Called /\ Len(trades) >= 4)
  => /\ Len(ResultOf("churn").affectedTrades) = Cardinality(ChurnPairs)
     /\ ResultOf("churn").score = ChurnScoreOfTable

\* A call on trades of which more than 40% close a round trip of less than
\* 7 days, at a loss on average.
C23_Witness ==
  /\ Called
  /\ Len(trades) >= 4
  /\ ChurnRateAbove(40)
  /\ ChurnPnlOver(ChurnPairs) < 0
  /\ ResultOf("churn").score = 80

\* The escalation events, by their position in the scan: a losing trade
\* that follows a losing trade and is more than 25% larger than it.
EscalationEvents ==
  { i \in 2..Len(Scanned) :
      /\ Pnl(Scanned[i]) < 0
      /\ Pnl(Scanned[i - 1]) < 0
      /\ 100 * Scanned[i].total_value > 125 * Scanned[i - 1].total_value }

\* Some event is an increase of more than pct percent.
EscalationAbove(pct) ==
  \E i \in EscalationEvents :
    100 * Scanned[i].total_value > (100 + pct) * Scanned[i - 1].total_value

RiskEscalationScoreOfTable ==
  IF EscalationAbove(100) THEN 95
  ELSE IF EscalationAbove(50) THEN 75
  ELSE IF Cardinality(EscalationEvents) >= 2 THEN 60
  ELSE IF Cardinality(EscalationEvents) = 1 THEN 40
  ELSE 10

\* C24: on at least 4 trades the risk-escalation detector counts one event
\* for each losing trade that is the second or a later one of a run of
\* consecutive losses and more than 25% larger than the trade before it, a
\* trade that does not lose ending the run, and scores 95 when the largest
\* increase is above 100%, else 75 when it is above 50%, else 60 with 2 or
\* more events, 40 with one and 10 with none.
C24_RiskEscalationBands ==
  (Called /\ Len(trades) >= 4)
  => /\ Len(ResultOf("risk_escalation").affectedTrades) = Cardinality(EscalationEvents)
     /\ ResultOf("risk_escalation").score = RiskEscalationScoreOfTable

\* A call on trades with an event of exactly 100% and a larger losing trade
\* right after a win.
C24_Witness ==
  /\ Called
  /\ Len(trades) >= 4
  /\ EscalationEvents # {}
  /\ ~EscalationAbove(100)
  /\ EscalationAbove(50)
  /\ \E i \in 2..Len(Scanned) :
       /\ Pnl(Scanned[i]) < 0
       /\ Pnl(Scanned[i - 1]) > 0
       /\ Scanned[i].total_value > 2 * Scanned[i - 1].total_value

\* ---------------------------------------------------------------------
\* The exported severity helper
\* ---------------------------------------------------------------------

\* C25: for every bias type and every integer score in 0..100 the exported
\* helper getSeverityFromScore returns the severity getSeverity returns, and
\* so the severity the engine stored in each detection it reported.
C25_HelperAgreesWithClassifier ==
  /\ \A biasType \in DOMAIN biasDefinitions :
       \A score \in 0..100 :
         getSeverityFromScore(score, biasType) = getSeverity(score)
  /\ Called =>
       \A k \in DOMAIN analysis.biases :
         getSeverityFromScore(analysis.biases[k].score,
                              analysis.biases[k].bias_type)
           = analysis.biases[k].severity

\* ---------------------------------------------------------------------
\* The floor of the raw scores
\* ---------------------------------------------------------------------

RawScore(type) == ResultOf(type).score

RawScoreSum == SumSeq([k \in DOMAIN detections |-> detections[k].result.score])

\* C26: on 5 or more trades overtrading scores at least 20, overconfidence
\* and fee drag at least 15, and loss aversion, revenge trading, the
\* disposition effect, risk escalation and churn at least 10 each, so the
\* nine raw scores sum to at least 100 and disciplineScore is at most 89; a
\* disciplineScore of 90 or more comes only from fewer than 5 trades.
C26_ScoreFloor ==
  Called =>
    /\ Len(trades) >= 5 =>
         /\ RawScore("overtrading") >= 20
         /\ RawScore("overconfidence") >= 15
         /\ RawScore("fee_drag") >= 15
         /\ \A type \in { "loss_aversion", "revenge_trading", "disposition_effect",
                           "risk_escalation", "churn" } : RawScore(type) >= 10
         /\ RawScoreSum >= 100
         /\ analysis.disciplineScore <= 89
    /\ analysis.disciplineScore >= 90 => Len(trades) < 5

\* A call on 5 trades where every detector scores its floor and no position
\* is held: the sum is exactly 100 and disciplineScore is 89.
C26_Witness ==
  /\ Called
  /\ Len(trades) >= 5
  /\ RawScoreSum = 100
  /\ RawScore("loss_aversion") = 10
  /\ analysis.disciplineScore = 89

\* ---------------------------------------------------------------------
\* The churn instances
\* ---------------------------------------------------------------------

ChurnEvidence(key) == GetProp(ResultOf("churn").evidence, key)

\* C27: the churn detector finds at most half as many instances as there
\* are trades, so churn_rate_pct (kept to one decimal) is at most 50.0, and
\* its affected trades name one trade for each instance and no trade twice.
C27_ChurnAtMostHalf ==
  (Called /\ Len(trades) >= 4)
  => LET affected == ResultOf("churn").affectedTrades
     IN  /\ 2 * ChurnEvidence(Str.churn_instances).n <= Len(trades)
         /\ ChurnEvidence(Str.churn_rate_pct).n <= 500
         /\ Len(affected) = ChurnEvidence(Str.churn_instances).n
         /\ \A i, j \in DOMAIN affected : affected[i] = affected[j] => i = j

\* A call on trades of one symbol that are bought and sold in turn: every
\* second trade closes an instance and the rate is exactly 50.0.
C27_Witness ==
  /\ Called
  /\ Len(trades) >= 4
  /\ \A k \in Indices(trades) : trades[k].symbol = trades[1].symbol
  /\ \E i \in 2..(Len(Scanned) - 1) :
       Scanned[i].action = "SELL" /\ Scanned[i + 1].action = "BUY"
  /\ ChurnEvidence(Str.churn_rate_pct).n = 500
  /\ Len(ResultOf("churn").affectedTrades) = 2

\* ---------------------------------------------------------------------
\* The growth store's xp and levels
\* ---------------------------------------------------------------------

LevelKeys == {"waterLevel", "sunLevel", "soilLevel"}

\* The upgrade of the system pays: its level is below 5 and xp covers
\* 200 x (level + 1).
Affordable(levelKey) ==
  /\ growth.tree[levelKey] < 5
  /\ growth.xp >= 200 * (growth.tree[levelKey] + 1)

\* The store with the cost taken from xp and that one level raised by 1.
Upgraded(levelKey) ==
  [growth EXCEPT !.xp = growth.xp - 200 * (growth.tree[levelKey] + 1),
                 !.tree[levelKey] = growth.tree[levelKey] + 1]

XpAndLevelsInRange ==
  /\ growth.xp >= 0
  /\ \A levelKey \in LevelKeys : growth.tree[levelKey] \in 0..5

UpgradeAsStated ==
  \A levelKey \in LevelKeys :
    IF Affordable(levelKey)
    THEN UpgradeReturns(growth, levelKey) /\ UpgradedSystem(growth, levelKey) = Upgraded(levelKey)
    ELSE ~UpgradeReturns(growth, levelKey) /\ UpgradedSystem(growth, levelKey) = growth

\* A step of the store that lowers xp or changes a level, and is neither
\* resetAll nor the loading of the stored snapshot.
SpendingStep ==
  /\ \/ growth'.xp < growth.xp
     \/ \E levelKey \in LevelKeys : growth'.tree[levelKey] # growth.tree[levelKey]
  /\ growth' # InitialGrowth
  /\ ~(growth = InitialGrowth /\ growth' = PersistedSession)

\* C28: in every state of the growth store xp >= 0 and waterLevel, sunLevel
\* and soilLevel are in 0..5; upgradeSystem returns true exactly when the
\* level is below 5 and xp >= 200 x (level + 1), then lowers xp by that cost
\* and raises that one level by 1, and otherwise returns false and changes
\* nothing; no other step of the store but resetAll lowers xp or changes a
\* level.
C28_XpAndLevels ==
  /\ [](XpAndLevelsInRange /\ UpgradeAsStated)
  /\ [][SpendingStep =>
          \E levelKey \in LevelKeys : Affordable(levelKey) /\ growth' = Upgraded(levelKey)]_vars

\* The water system is at level 5 and the sun system was upgraded after it;
\* the xp left pays for no upgrade, and the tree has grown.
C28_Witness ==
  /\ growth.tree.waterLevel = 5
  /\ growth.tree.sunLevel = 1
  /\ growth.xp < 200
  /\ growth.tree.growthProgress > 0
  /\ growth.tree.totalPassiveIncome > 0

\* ---------------------------------------------------------------------
\* The portfolio store's orders
\* ---------------------------------------------------------------------

\* The call that the step has just made is of the handler.
JustCalled(handler) == returned'.call.handler = handler

\* The store before the call does not hold the quantity of the symbol.
NotHeld(symbol, quantity) ==
  \/ \A i \in Indices(positions) : positions[i].symbol # symbol
  \/ \E i \in Indices(positions) :
       positions[i].symbol = symbol /\ quantity > positions[i].quantity

\* C29: executeBuy returns false when quantity x price + fees exceeds
\* cashBalance, executeSell returns false when the symbol has no position
\* or the quantity exceeds the held quantity, and a call that returns false
\* leaves cashBalance, positions, trades, totalValue, totalPnl and
\* allocations as they were, so no trade record is added.
C29_RejectedOrder ==
  [][ /\ (JustCalled("executeBuy")
           /\ returned'.call.quantity * returned'.call.price + returned'.call.fees > cashBalance)
         => returned'.value = "false"
      /\ (JustCalled("executeSell")
           /\ NotHeld(returned'.call.symbol, returned'.call.quantity))
         => returned'.value = "false"
      /\ returned'.value = "false"
         => /\ cashBalance' = cashBalance
            /\ positions' = positions
            /\ trades' = trades
            /\ totals' = totals ]_vars

\* A buy was rejected by a store that has traded and holds a position.
C29_Witness ==
  /\ returned.call.handler = "executeBuy"
  /\ returned.value = "false"
  /\ returned.call.quantity * returned.call.price + returned.call.fees > cashBalance
  /\ trades # <<>>
  /\ positions # <<>>

PositionsValue == SumSeq([i \in Indices(positions) |-> positions[i].current_value])

\* C30: after every executeBuy, executeSell, updatePrices and
\* resetPortfolio totalValue is cashBalance plus the current_value of the
\* positions, no two positions have the same symbol and every position has
\* a quantity above 0; updatePrices leaves cashBalance and the trades as
\* they were.
C30_PortfolioInvariant ==
  /\ [](/\ totals.totalValue = cashBalance + PositionsValue
        /\ \A i, j \in Indices(positions) :
             positions[i].symbol = positions[j].symbol => i = j
        /\ \A i \in Indices(positions) : positions[i].quantity > 0)
  /\ [][JustCalled("updatePrices") => (cashBalance' = cashBalance /\ trades' = trades)]_vars

\* Quotes arrived after a sale of a whole holding: the symbol sold has no
\* position, the other position is worth more than it cost.
C30_Witness ==
  /\ returned.call.handler = "updatePrices"
  /\ Len(trades) = 3
  /\ trades[1].action = "SELL"
  /\ \A i \in Indices(positions) : positions[i].symbol # trades[1].symbol
  /\ Len(positions) = 1
  /\ totals.totalPnl.num > 0

====
